---- MODULE Spec2Model ----
(***************************************************************************)
(* Oceano Etiquetas backend (src/app.py): the quote -> order workflow, the *)
(* public quote submission and the two login / token flows, as a state     *)
(* machine over the PostgreSQL tables the handlers read and write.         *)
(*                                                                         *)
(* Every handler runs on its own connection inside one transaction         *)
(* (psycopg2 opens it at the first execute; autocommit is off).  Its       *)
(* writes are kept in the request's pending set `tx` and reach the tables  *)
(* only at conn.commit(); conn.rollback(), or closing the connection       *)
(* without a commit, discards them.  A statement of the handler sees the   *)
(* committed tables plus its own pending writes (READ COMMITTED).          *)
(***************************************************************************)
EXTENDS Integers, Sequences, FiniteSets, TLC

VARIABLES db, req, now, tokens

vars == <<db, req, now, tokens>>

(***************************************************************************)
(* Bounds of the model.                                                    *)
(***************************************************************************)
MaxOrcamentos == 2      \* quotes created in one run
MaxPedidos == 2         \* orders created in one run
MaxNovosClientes == 1   \* clients auto-created in one run
MaxItens == 2           \* line items of one submitted quote
MaxTime == 96           \* hours the clock runs
MaxTokens == 2          \* tokens the logins of one run issue
MaxCadastros == 1       \* rows an administrator adds to one table in one run
MaxToolCalls == 1       \* tool calls the model makes in one conversation

\* Python None / SQL NULL.
None == "None"

\* Request slots: the requests the server is handling or has just answered.
Reqs == {1, 2}

\* Product ids the catalogue holds (oceano_produtos is not written here).
Produtos == {1, 2}

(***************************************************************************)
(* Text columns of the catalogue.  A text is the sequence of its           *)
(* characters, so that prefixes, concatenation and parsing are computed;   *)
(* NULL is the one value that is no text.                                  *)
(***************************************************************************)
NULL == <<"NULL">>

\* str.startswith
startswith(s, prefix) ==
    Len(s) >= Len(prefix) /\ SubSeq(s, 1, Len(prefix)) = prefix

\* The literal '/produtos/'.
Prefixo == <<"/", "p", "r", "o", "d", "u", "t", "o", "s", "/">>

\* categorias_ordem
Lacres == <<"L", "a", "c", "r", "e", "s">>
Adesivos == <<"A", "d", "e", "s", "i", "v", "o", "s">>
Brindes == <<"B", "r", "i", "n", "d", "e", "s">>
Impressos == <<"I", "m", "p", "r", "e", "s", "s", "o", "s">>

categorias_ordem == <<Lacres, Adesivos, Brindes, Impressos>>

\* The literals 'Outros' and 'Descrição'.
Outros == <<"O", "u", "t", "r", "o", "s">>
Descricao == <<"D", "e", "s", "c", "r", "i", "ç", "ã", "o">>

\* Python truth of a fetched text column: None and '' are false.
Truthy(text) == text # NULL /\ text # <<>>

(***************************************************************************)
(* json.loads on a text: a recursive-descent reading of objects with       *)
(* string keys, strings without escapes, unsigned integers and the         *)
(* literals null, true and false, with blanks between tokens.  The result  *)
(* is tagged with the Python type: a dict is the sequence of its           *)
(* (key, value) pairs in insertion order.                                  *)
(***************************************************************************)
JDict(pairs) == [t |-> "dict", v |-> pairs]
JStr(chars) == [t |-> "str", v |-> chars]
JInt(n) == [t |-> "int", v |-> <<n>>]
JBool(b) == [t |-> "bool", v |-> <<b>>]
JNone == [t |-> "None", v |-> <<>>]

\* raise JSONDecodeError
JSONDecodeError == [ok |-> FALSE, v |-> JNone, i |-> 0]

Parsed(v, i) == [ok |-> TRUE, v |-> v, i |-> i]

Aspas == "\""

Digitos == <<"0", "1", "2", "3", "4", "5", "6", "7", "8", "9">>

IsDigit(ch) == \E d \in 1..Len(Digitos) : Digitos[d] = ch

DigitVal(ch) == (CHOOSE d \in 1..Len(Digitos) : Digitos[d] = ch) - 1

\* d[key] = value on a dict.
DictSet(pairs, key, value) ==
    IF \E k \in 1..Len(pairs) : pairs[k][1] = key
    THEN [k \in 1..Len(pairs) |-> IF pairs[k][1] = key THEN <<key, value>> ELSE pairs[k]]
    ELSE Append(pairs, <<key, value>>)

RECURSIVE SkipWs(_, _)
SkipWs(s, i) == IF i <= Len(s) /\ s[i] = " " THEN SkipWs(s, i + 1) ELSE i

\* The index of the quote that closes a string whose text starts at i; 0 if
\* there is none.
RECURSIVE StringEnd(_, _)
StringEnd(s, i) ==
    IF i > Len(s) THEN 0 ELSE IF s[i] = Aspas THEN i ELSE StringEnd(s, i + 1)

\* The index after the digits that start at i.
RECURSIVE DigitsEnd(_, _)
DigitsEnd(s, i) == IF i <= Len(s) /\ IsDigit(s[i]) THEN DigitsEnd(s, i + 1) ELSE i

RECURSIVE IntOf(_, _, _, _)
IntOf(s, i, j, acc) ==
    IF i >= j THEN acc ELSE IntOf(s, i + 1, j, 10 * acc + DigitVal(s[i]))

Literal(s, i, word) ==
    i + Len(word) - 1 <= Len(s) /\ SubSeq(s, i, i + Len(word) - 1) = word

RECURSIVE ParseValue(_, _)
RECURSIVE ParseMembers(_, _, _, _)
\* A value starting at s[i].
ParseValue(s, i) ==
    IF i > Len(s) THEN JSONDecodeError
    ELSE IF s[i] = "{" THEN ParseMembers(s, SkipWs(s, i + 1), <<>>, TRUE)
    ELSE IF s[i] = Aspas
    THEN LET e == StringEnd(s, i + 1)
         IN IF e = 0 THEN JSONDecodeError ELSE Parsed(JStr(SubSeq(s, i + 1, e - 1)), e + 1)
    ELSE IF s[i] = "0" THEN Parsed(JInt(0), i + 1)
    ELSE IF IsDigit(s[i])
    THEN LET e == DigitsEnd(s, i) IN Parsed(JInt(IntOf(s, i, e, 0)), e)
    ELSE IF Literal(s, i, <<"n", "u", "l", "l">>) THEN Parsed(JNone, i + 4)
    ELSE IF Literal(s, i, <<"t", "r", "u", "e">>) THEN Parsed(JBool(TRUE), i + 4)
    ELSE IF Literal(s, i, <<"f", "a", "l", "s", "e">>) THEN Parsed(JBool(FALSE), i + 5)
    ELSE JSONDecodeError

\* The members of an object from s[i] on: '}' closes it only before the
\* first member or after a value, never after a comma.
ParseMembers(s, i, pairs, first) ==
    IF i > Len(s) THEN JSONDecodeError
    ELSE IF s[i] = "}" /\ first THEN Parsed(JDict(pairs), i + 1)
    ELSE IF s[i] # Aspas THEN JSONDecodeError
    ELSE LET e == StringEnd(s, i + 1)
             colon == SkipWs(s, e + 1)
         IN IF e = 0 \/ colon > Len(s) THEN JSONDecodeError
            ELSE IF s[colon] # ":" THEN JSONDecodeError
            ELSE LET val == ParseValue(s, SkipWs(s, colon + 1))
                     n == SkipWs(s, val.i)
                     ps == DictSet(pairs, SubSeq(s, i + 1, e - 1), val.v)
                 IN IF ~val.ok \/ n > Len(s) THEN JSONDecodeError
                    ELSE IF s[n] = "}" THEN Parsed(JDict(ps), n + 1)
                    ELSE IF s[n] = "," THEN ParseMembers(s, SkipWs(s, n + 1), ps, FALSE)
                    ELSE JSONDecodeError

\* json.loads(s): one value, blanks around it, and nothing else.
json_loads(s) ==
    LET r == ParseValue(s, SkipWs(s, 1))
    IN IF r.ok /\ SkipWs(s, r.i) = Len(s) + 1 THEN r ELSE JSONDecodeError

(***************************************************************************)
(* Status vocabulary.                                                      *)
(***************************************************************************)
AguardandoOrcamento == "Aguardando Orçamento"
AguardandoPagamento == "Aguardando Pagamento"
Cancelado == "Cancelado"
ConvertidoEmPedido == "Convertido em Pedido"
EmProducao == "Em Produção"
Enviado == "Enviado"

StatusOrcamento == {AguardandoOrcamento, AguardandoPagamento, Cancelado, ConvertidoEmPedido}

(***************************************************************************)
(* Tables.  Rows are records; a table is the set of its rows.              *)
(*   oceano_admin           [id, username, chave_admin]                    *)
(*   oceano_clientes        [id, nome_cliente, email, codigo_acesso]       *)
(*   oceano_orcamentos      [id, cliente_id, status]                       *)
(*   oceano_orcamento_itens [id, orcamento_id, produto_id,                 *)
(*                           quantidade_solicitada, preco_unitario_definido]*)
(*   oceano_pedidos         [id, cliente_id, status, handler, orcamento_id]*)
(*   oceano_pedido_itens    [id, pedido_id, produto_id,                    *)
(*                           quantidade_solicitada, preco_unitario_definido,*)
(*                           handler]                                      *)
(* `handler` and the order's `orcamento_id` are history fields: the        *)
(* handler whose INSERT wrote the row and the quote it was reading.        *)
(***************************************************************************)
TableNames == {"admin", "clientes", "produtos", "orcamentos", "orcamento_itens", "pedidos", "pedido_itens"}

EmptyTables == [t \in TableNames |-> {}]

\* The pending writes of one transaction: rows inserted per table, the
\* column updates of existing rows (UPDATE ... WHERE id = ...), in order,
\* and the rows deleted (DELETE ... WHERE id = ...), as [table, id].
EmptyTx == [ins |-> EmptyTables, upd |-> <<>>, del |-> {}]

\* One UPDATE applied to a table row.
ApplyUpdate(table, row, u) ==
    IF u.table # table THEN row
    ELSE IF u.table = "orcamentos" /\ row.id = u.id
         THEN [row EXCEPT !.status = u.status]
    ELSE IF u.table = "pedidos" /\ row.id = u.id
         THEN [row EXCEPT !.status = u.status]
    ELSE IF u.table = "orcamento_itens" /\ row.id = u.id /\ row.orcamento_id = u.orcamento_id
         THEN [row EXCEPT !.preco_unitario_definido = u.preco]
    ELSE row

RECURSIVE ApplyUpdates(_, _, _)
ApplyUpdates(table, row, upds) ==
    IF upds = <<>> THEN row
    ELSE ApplyUpdates(table, ApplyUpdate(table, row, Head(upds)), Tail(upds))

\* The tables with a transaction's pending writes applied.
Apply(tables, tx) ==
    [t \in TableNames |->
        {ApplyUpdates(t, row, tx.upd) :
            row \in {x \in tables[t] : [table |-> t, id |-> x.id] \notin tx.del}}
        \cup tx.ins[t]]

(***************************************************************************)
(* Tokens (PyJWT, HS256).  A token is its payload and a signature over the *)
(* payload under a key; decoding checks the signature, then the expiry.    *)
(***************************************************************************)
SECRET_KEY == "SECRET_KEY"

AdminTokenHours == 24
ClienteTokenHours == 72

Sign(payload, key) == [signed |-> payload, with |-> key]

JwtEncode(payload, key) == [payload |-> payload, sig |-> Sign(payload, key)]

\* jwt.decode(token, key, algorithms=["HS256"]) at time t.
JwtDecode(token, key, t) ==
    IF token.sig # Sign(token.payload, key)
    THEN [ok |-> FALSE, data |-> token.payload, error |-> "InvalidSignatureError"]
    ELSE IF "exp" \in DOMAIN token.payload /\ token.payload.exp <= t
    THEN [ok |-> FALSE, data |-> token.payload, error |-> "ExpiredSignatureError"]
    ELSE [ok |-> TRUE, data |-> token.payload, error |-> ""]

\* The empty string in the place of a token ("Bearer " with nothing after it).
EmptyToken == [payload |-> [k \in {} |-> 0], sig |-> Sign([k \in {} |-> 0], "")]

\* An Authorization header is the word before the first space and the
\* space-separated parts after it; no header at all is NoHeader.
NoHeader == [present |-> FALSE, scheme |-> "", rest |-> <<>>]

Bearer(token) == [present |-> TRUE, scheme |-> "Bearer", rest |-> <<token>>]

\* A header with no space in it: split(" ") has one part only.
OnePart == [present |-> TRUE, scheme |-> "token", rest |-> <<>>]

\* The outcome of a decorator: status 0 lets the wrapped handler run with
\* kwargs; 401 is the decorator's own answer; 500 is Flask's answer to the
\* IndexError that request.headers['Authorization'].split(" ")[1] raises
\* outside the decorator's try.
Gate(status, kwargs) == [status |-> status, kwargs |-> kwargs]

NoKwargs == [k \in {} |-> 0]

\* admin_token_required without the test of the admin_id claim.
admin_token_required_sem_papel(header, t) ==
    IF ~header.present THEN Gate(401, NoKwargs)
    ELSE IF Len(header.rest) < 1 THEN Gate(500, NoKwargs)
    ELSE IF header.rest[1] = EmptyToken THEN Gate(401, NoKwargs)
    ELSE LET data == JwtDecode(header.rest[1], SECRET_KEY, t) IN
         IF ~data.ok THEN Gate(401, NoKwargs)
         ELSE Gate(0, NoKwargs)

admin_token_required(header, t) ==
    IF ~header.present THEN Gate(401, NoKwargs)
    ELSE IF Len(header.rest) < 1 THEN Gate(500, NoKwargs)
    ELSE IF header.rest[1] = EmptyToken THEN Gate(401, NoKwargs)
    ELSE LET data == JwtDecode(header.rest[1], SECRET_KEY, t) IN
         IF ~data.ok THEN Gate(401, NoKwargs)
         ELSE IF "admin_id" \notin DOMAIN data.data THEN Gate(401, NoKwargs)
         ELSE Gate(0, NoKwargs)

cliente_token_required(header, t) ==
    IF ~header.present THEN Gate(401, NoKwargs)
    ELSE IF Len(header.rest) < 1 THEN Gate(500, NoKwargs)
    ELSE IF header.rest[1] = EmptyToken THEN Gate(401, NoKwargs)
    ELSE LET data == JwtDecode(header.rest[1], SECRET_KEY, t) IN
         IF ~data.ok THEN Gate(401, NoKwargs)
         ELSE IF "cliente_id" \notin DOMAIN data.data THEN Gate(401, NoKwargs)
         ELSE Gate(0, [cliente_id |-> data.data.cliente_id])

\* The token admin_login issues for an admin row at time t.
AdminToken(row, t) ==
    JwtEncode([admin_id |-> row.id, username |-> row.username,
               exp |-> t + AdminTokenHours], SECRET_KEY)

\* ClienteToken with the lifetime of an administrator's token.
ClienteTokenCurto(row, t) ==
    JwtEncode([cliente_id |-> row.id, nome_cliente |-> row.nome_cliente,
               exp |-> t + AdminTokenHours], SECRET_KEY)

\* The token cliente_login issues for a client row at time t.
ClienteToken(row, t) ==
    JwtEncode([cliente_id |-> row.id, nome_cliente |-> row.nome_cliente,
               exp |-> t + ClienteTokenHours], SECRET_KEY)

(***************************************************************************)
(* Request values.                                                         *)
(***************************************************************************)
\* not x, for a string field of the JSON body.
Falsy(x) == x = None \/ x = ""

\* The 'itens' field of a JSON body: absent (None), a list, or another
\* JSON value (a string here); v holds the elements.
PyNone == [t |-> "none", v |-> <<>>]
PyList(v) == [t |-> "list", v |-> v]
PyStr(v) == [t |-> "str", v |-> v]

\* ItensInvalidos without the isinstance test.
ItensInvalidosSemTipo(itens) == itens.t = "none" \/ Len(itens.v) = 0

\* not itens or not isinstance(itens, list) or len(itens) == 0
ItensInvalidos(itens) ==
    \/ itens.t = "none" \/ Len(itens.v) = 0
    \/ itens.t # "list"
    \/ Len(itens.v) = 0

\* An access code is the tuple of its characters; <<>> is the empty string
\* and the absent field alike (both fail `if codigo_acesso`).
NoCode == <<>>

\* string.ascii_uppercase + string.digits
Characters ==
    <<"A", "B", "C", "D", "E", "F", "G", "H", "I", "J", "K", "L", "M",
      "N", "O", "P", "Q", "R", "S", "T", "U", "V", "W", "X", "Y", "Z",
      "0", "1", "2", "3", "4", "5", "6", "7", "8", "9">>

AccessCodeLength == 8

\* generate_access_code with range(length - 1).
generate_access_code_curto(length, draw) ==
    [i \in 1..length - 1 |-> Characters[draw[i]]]

\* generate_access_code(length): draw[i] is the index random.choice picks
\* at the i-th character.
generate_access_code(length, draw) == [i \in 1..length |-> Characters[draw[i]]]

\* The index of character c in Characters.
IndexOf(c) == CHOOSE i \in 1..Len(Characters) : Characters[i] = c

\* The code the source's comment gives as an example of a generated code.
CodigoAna == <<"A", "4", "B", "9", "K", "1", "D", "2">>
\* A code an administrator typed in.
CodigoBia == <<"b", "i", "a">>
\* A code no client has.
CodigoErrado == <<"X", "X">>

\* Outcomes of the random draws the model follows: one that repeats an
\* existing client's code, two that give new codes.
RandomDraws ==
    { [i \in 1..12 |-> IF i <= Len(CodigoAna) THEN IndexOf(CodigoAna[i]) ELSE 1],
      [i \in 1..12 |-> ((7 * i) % Len(Characters)) + 1],
      [i \in 1..12 |-> Len(Characters) - i] }

NoArgs ==
    [header |-> NoHeader, id |-> 0, status |-> None, precos |-> <<>>,
     itens |-> PyNone, nome |-> None, email |-> None, whatsapp |-> None,
     codigo_acesso |-> NoCode, username |-> None, password |-> None,
     chave_admin |-> None, gemini_model |-> FALSE,
     categoria |-> NULL, subcategoria |-> NULL, url_slug |-> NULL,
     especificacoes_tecnicas |-> NULL, slug |-> <<>>, history |-> <<>>]

NoLoc ==
    [cliente_id |-> 0, is_new_client |-> FALSE, orcamento |-> <<>>,
     itens_orcamento |-> <<>>, novo_id |-> 0, i |-> 0, raised |-> "",
     token |-> EmptyToken, body |-> {}, produto |-> <<>>,
     specs |-> JDict(<<>>), rendered |-> FALSE, falha_menu |-> FALSE,
     menu_categorias |-> <<>>, response |-> <<>>, function_calls |-> <<>>,
     function_responses |-> <<>>, texto |-> ""]

\* A free slot.  pc is the statement the handler is at; resp the HTTP status
\* answered (0: none yet); conn whether its connection is open; pre the
\* tables as they were when the request arrived and at the hour it arrived
\* (history).
IdleReq ==
    [handler |-> "idle", pc |-> "idle", args |-> NoArgs, loc |-> NoLoc,
     tx |-> EmptyTx, conn |-> FALSE, resp |-> 0, pre |-> EmptyTables, at |-> 0]

Free(r) == req[r].pc \in {"idle", "done", "killed"}

InFlight(r) == ~Free(r)

\* What the statements of request r see.
View(r) == Apply(db, req[r].tx)

\* A request that is answered before its handler opens a connection.
Rejected(handler, args, status) ==
    [IdleReq EXCEPT !.handler = handler, !.pc = "done", !.args = args,
                    !.resp = status, !.pre = db, !.at = now]

\* A request whose handler has opened its connection and is at statement pc.
Begun(handler, args, loc, pc) ==
    [IdleReq EXCEPT !.handler = handler, !.pc = pc, !.args = args, !.loc = loc,
                    !.conn = TRUE, !.pre = db, !.at = now]

\* A return with no finally clause: the connection stays open.
AnswerSemFinally(q, status) ==
    [q EXCEPT !.pc = "done", !.resp = status, !.tx = EmptyTx]

\* return jsonify(...), status: the finally clause closes the connection,
\* which drops whatever the transaction has not committed.
Answer(q, status) ==
    [q EXCEPT !.pc = "done", !.resp = status, !.tx = EmptyTx, !.conn = FALSE]

\* An INSERT of request q: the row joins q's pending writes, with the
\* handler that issued the statement as its history field.
TxInsert(q, table, row) ==
    [q.tx EXCEPT !.ins[table] = @ \cup {row @@ [handler |-> q.handler]}]

TxUpdate(tx, u) == [tx EXCEPT !.upd = Append(@, u)]

TxDelete(tx, table, id) == [tx EXCEPT !.del = @ \cup {[table |-> table, id |-> id]}]

\* conn.commit(): the pending writes reach the tables.
Commit(tables, tx) == Apply(tables, tx)

\* Rollback on a connection in autocommit mode: every write has already
\* reached the tables.
RollbackAutocommit(tables, tx) == Apply(tables, tx)

\* conn.rollback(), and the server's rollback of a connection that is closed
\* or lost with a transaction open: the pending writes are dropped.
Rollback(tables, tx) == tables

\* The orderings a SELECT without ORDER BY may return a set of rows in.
Orderings(S) ==
    {s \in [1..Cardinality(S) -> S] : \A i, j \in 1..Cardinality(S) : s[i] = s[j] => i = j}

\* The id a SERIAL column gives the next row of a table: above every id the
\* table holds and every id a transaction in progress has taken.
NextId(table) ==
    LET taken == {row.id : row \in db[table]}
                 \cup UNION {{row.id : row \in req[r].tx.ins[table]} : r \in Reqs}
    IN 1 + (IF taken = {} THEN 0 ELSE CHOOSE m \in taken : \A n \in taken : n <= m)

(***************************************************************************)
(* POST /api/oceano/admin/orcamentos/<id>/aprovar                          *)
(***************************************************************************)
\* The order row INSERTed from the quote row.
PedidoDoOrcamento(orcamento, novo_pedido_id) ==
    [id |-> novo_pedido_id, cliente_id |-> orcamento.cliente_id, status |-> EmProducao,
     orcamento_id |-> orcamento.id]

\* ItemDoPedido with the admin-defined price left out of the INSERT.
ItemDoPedidoSemPreco(item, novo_pedido_id, novo_id) ==
    [id |-> novo_id, pedido_id |-> novo_pedido_id, produto_id |-> item.produto_id,
     quantidade_solicitada |-> item.quantidade_solicitada,
     preco_unitario_definido |-> 0]

\* The order line item INSERTed from a quote line item.
ItemDoPedido(item, novo_pedido_id, novo_id) ==
    [id |-> novo_id, pedido_id |-> novo_pedido_id, produto_id |-> item.produto_id,
     quantidade_solicitada |-> item.quantidade_solicitada,
     preco_unitario_definido |-> item.preco_unitario_definido]

\* The tables the two INSERT statements of the handler name.
sql_insert_pedido == "pedidos"

sql_insert_item_pedido == "pedido_itens"

\* UPDATE oceano_orcamentos SET status = 'Convertido em Pedido' WHERE id = %s
MarcaConvertido(id) == [table |-> "orcamentos", id |-> id, status |-> ConvertidoEmPedido]

AprovarStart(r, header, id) ==
    /\ Free(r)
    /\ Cardinality(db["pedidos"]) < MaxPedidos
    /\ LET args == [NoArgs EXCEPT !.header = header, !.id = id]
           gate == admin_token_required(header, now)
       IN req' = [req EXCEPT ![r] =
                    IF gate.status # 0
                    THEN Rejected("aprovar_orcamento", args, gate.status)
                    ELSE Begun("aprovar_orcamento", args, NoLoc, "select_orcamento")]
    /\ UNCHANGED <<db, now, tokens>>

AprovarSelectOrcamento(r) ==
    LET q == req[r]
        rows == {o \in View(r)["orcamentos"] : o.id = q.args.id}
    IN /\ q.handler = "aprovar_orcamento" /\ q.pc = "select_orcamento"
       /\ req' = [req EXCEPT ![r] =
                    IF rows = {} THEN Answer(q, 404)
                    ELSE [q EXCEPT !.pc = "select_itens",
                                   !.loc.orcamento = <<CHOOSE o \in rows : TRUE>>]]
       /\ UNCHANGED <<db, now, tokens>>

AprovarSelectItens(r) ==
    LET q == req[r]
        rows == {i \in View(r)["orcamento_itens"] : i.orcamento_id = q.args.id}
    IN /\ q.handler = "aprovar_orcamento" /\ q.pc = "select_itens"
       /\ \E itens_orcamento \in Orderings(rows) :
            req' = [req EXCEPT ![r] =
                      [q EXCEPT !.pc = "insert_pedido",
                                !.loc.itens_orcamento = itens_orcamento]]
       /\ UNCHANGED <<db, now, tokens>>

AprovarInsertPedido(r) ==
    LET q == req[r]
        novo_pedido_id == NextId(sql_insert_pedido)
    IN /\ q.handler = "aprovar_orcamento" /\ q.pc = "insert_pedido"
       /\ req' = [req EXCEPT ![r] =
                    [q EXCEPT !.pc = "insert_itens", !.loc.novo_id = novo_pedido_id,
                              !.loc.i = 1,
                              !.tx = TxInsert(q, sql_insert_pedido,
                                        PedidoDoOrcamento(q.loc.orcamento[1], novo_pedido_id))]]
       /\ UNCHANGED <<db, now, tokens>>

AprovarInsertItem(r) ==
    LET q == req[r]
    IN /\ q.handler = "aprovar_orcamento" /\ q.pc = "insert_itens"
       /\ q.loc.i <= Len(q.loc.itens_orcamento)
       /\ req' = [req EXCEPT ![r] =
                    [q EXCEPT !.loc.i = @ + 1,
                              !.tx = TxInsert(q, sql_insert_item_pedido,
                                        ItemDoPedido(q.loc.itens_orcamento[q.loc.i],
                                                     q.loc.novo_id,
                                                     NextId(sql_insert_item_pedido)))]]
       /\ UNCHANGED <<db, now, tokens>>

\* Another transaction in progress has updated this row: the UPDATE waits
\* until that transaction ends.
LinhaBloqueada(r, table, id) ==
    \E s \in Reqs \ {r} : \E k \in 1..Len(req[s].tx.upd) :
        req[s].tx.upd[k].table = table /\ req[s].tx.upd[k].id = id

AprovarUpdateStatus(r) ==
    LET q == req[r]
    IN /\ q.handler = "aprovar_orcamento" /\ q.pc = "insert_itens"
       /\ q.loc.i > Len(q.loc.itens_orcamento)
       /\ ~LinhaBloqueada(r, "orcamentos", q.args.id)
       /\ req' = [req EXCEPT ![r] =
                    [q EXCEPT !.pc = "commit", !.tx = TxUpdate(@, MarcaConvertido(q.args.id))]]
       /\ UNCHANGED <<db, now, tokens>>

AprovarCommit(r) ==
    LET q == req[r]
    IN /\ q.handler = "aprovar_orcamento" /\ q.pc = "commit"
       /\ db' = Commit(db, q.tx)
       /\ req' = [req EXCEPT ![r] = Answer(q, 200)]
       /\ UNCHANGED <<now, tokens>>

\* The handler, for requests with a header of Headers and an id of Ids.
aprovar_orcamento(r, Headers, Ids) ==
    \/ \E header \in Headers, id \in Ids : AprovarStart(r, header, id)
    \/ AprovarSelectOrcamento(r)
    \/ AprovarSelectItens(r)
    \/ AprovarInsertPedido(r)
    \/ AprovarInsertItem(r)
    \/ AprovarUpdateStatus(r)
    \/ AprovarCommit(r)

(***************************************************************************)
(* PUT /api/oceano/admin/orcamentos/<id>                                   *)
(***************************************************************************)
\* UPDATE oceano_orcamentos SET status = %s, ... WHERE id = %s
AtualizaOrcamento(id, status) == [table |-> "orcamentos", id |-> id, status |-> status]

\* UPDATE oceano_orcamento_itens SET preco_unitario_definido = %s
\*   WHERE id = %s AND orcamento_id = %s
AtualizaItem(item, id) ==
    [table |-> "orcamento_itens", id |-> item.id, orcamento_id |-> id,
     preco |-> item.preco_unitario_definido]

PutOrcamentoStart(r, header, id, status, precos) ==
    /\ Free(r)
    /\ LET args == [NoArgs EXCEPT !.header = header, !.id = id, !.status = status,
                                  !.precos = precos]
           gate == admin_token_required(header, now)
       IN req' = [req EXCEPT ![r] =
                    IF gate.status # 0
                    THEN Rejected("handle_orcamento_id", args, gate.status)
                    ELSE Begun("handle_orcamento_id", args, NoLoc, "update_orcamento")]
    /\ UNCHANGED <<db, now, tokens>>

PutOrcamentoUpdate(r) ==
    LET q == req[r]
    IN /\ q.handler = "handle_orcamento_id" /\ q.pc = "update_orcamento"
       /\ req' = [req EXCEPT ![r] =
                    [q EXCEPT !.pc = "update_itens", !.loc.i = 1,
                              !.tx = TxUpdate(@, AtualizaOrcamento(q.args.id, q.args.status))]]
       /\ UNCHANGED <<db, now, tokens>>

PutOrcamentoUpdateItem(r) ==
    LET q == req[r]
    IN /\ q.handler = "handle_orcamento_id" /\ q.pc = "update_itens"
       /\ q.loc.i <= Len(q.args.precos)
       /\ req' = [req EXCEPT ![r] =
                    [q EXCEPT !.loc.i = @ + 1,
                              !.tx = TxUpdate(@, AtualizaItem(q.args.precos[q.loc.i], q.args.id))]]
       /\ UNCHANGED <<db, now, tokens>>

PutOrcamentoCommit(r) ==
    LET q == req[r]
    IN /\ q.handler = "handle_orcamento_id" /\ q.pc = "update_itens"
       /\ q.loc.i > Len(q.args.precos)
       /\ db' = Commit(db, q.tx)
       /\ req' = [req EXCEPT ![r] = Answer(q, 200)]
       /\ UNCHANGED <<now, tokens>>

\* The 'itens' an administrator sends: none, or the price of the first item.
Precos == {<<>>, <<[id |-> 1, preco_unitario_definido |-> 10]>>}

handle_orcamento_id(r, Headers, Ids, Status) ==
    \/ \E header \in Headers, id \in Ids, status \in Status, precos \in Precos :
          PutOrcamentoStart(r, header, id, status, precos)
    \/ PutOrcamentoUpdate(r)
    \/ PutOrcamentoUpdateItem(r)
    \/ PutOrcamentoCommit(r)

(***************************************************************************)
(* PUT /api/oceano/admin/pedidos/<id>                                      *)
(***************************************************************************)
\* UPDATE oceano_pedidos SET status = %s, ... WHERE id = %s
AtualizaPedido(id, status) == [table |-> "pedidos", id |-> id, status |-> status]

PutPedidoStart(r, header, id, status) ==
    /\ Free(r)
    /\ LET args == [NoArgs EXCEPT !.header = header, !.id = id, !.status = status]
           gate == admin_token_required(header, now)
       IN req' = [req EXCEPT ![r] =
                    IF gate.status # 0
                    THEN Rejected("handle_pedido_id", args, gate.status)
                    ELSE Begun("handle_pedido_id", args, NoLoc, "update_pedido")]
    /\ UNCHANGED <<db, now, tokens>>

PutPedidoUpdate(r) ==
    LET q == req[r]
    IN /\ q.handler = "handle_pedido_id" /\ q.pc = "update_pedido"
       /\ req' = [req EXCEPT ![r] =
                    [q EXCEPT !.pc = "commit",
                              !.tx = TxUpdate(@, AtualizaPedido(q.args.id, q.args.status))]]
       /\ UNCHANGED <<db, now, tokens>>

PutPedidoCommit(r) ==
    LET q == req[r]
    IN /\ q.handler = "handle_pedido_id" /\ q.pc = "commit"
       /\ db' = Commit(db, q.tx)
       /\ req' = [req EXCEPT ![r] = Answer(q, 200)]
       /\ UNCHANGED <<now, tokens>>

handle_pedido_id(r, Headers, Ids) ==
    \/ \E header \in Headers, id \in Ids : PutPedidoStart(r, header, id, Enviado)
    \/ PutPedidoUpdate(r)
    \/ PutPedidoCommit(r)

(***************************************************************************)
(* POST /api/oceano/cliente/orcamentos/novo                                *)
(***************************************************************************)
\* The tables the two INSERT statements of both creation handlers name.
sql_orc == "orcamentos"

\* sql_item naming the order items table (the slip the source's comments
\* record as corrected).
sql_item_pedido == "pedido_itens"

sql_item == "orcamento_itens"

\* The quote row both creation handlers INSERT.
NovoOrcamento(id, cliente_id) ==
    [id |-> id, cliente_id |-> cliente_id, status |-> AguardandoOrcamento]

\* The quote line item both creation handlers INSERT for a submitted item.
NovoItem(id, orcamento_id, item) ==
    [id |-> id, orcamento_id |-> orcamento_id, produto_id |-> item.produto_id,
     quantidade_solicitada |-> item.quantidade,
     preco_unitario_definido |-> 0]      \* the column is not given: no price yet

NovoStart(r, header, itens) ==
    /\ Free(r)
    /\ Cardinality(db["orcamentos"]) < MaxOrcamentos
    /\ LET args == [NoArgs EXCEPT !.header = header, !.itens = itens]
           gate == cliente_token_required(header, now)
       IN req' = [req EXCEPT ![r] =
                    IF gate.status # 0
                    THEN Rejected("post_novo_orcamento", args, gate.status)
                    ELSE IF ItensInvalidos(itens)
                    THEN [Rejected("post_novo_orcamento", args, 400)
                             EXCEPT !.loc.cliente_id = gate.kwargs.cliente_id]
                    ELSE Begun("post_novo_orcamento", args,
                               [NoLoc EXCEPT !.cliente_id = gate.kwargs.cliente_id],
                               "insert_orcamento")]
    /\ UNCHANGED <<db, now, tokens>>

\* Shared by both creation handlers: the quote row, then one row per item.
InsertOrcamento(r, handler) ==
    LET q == req[r]
        novo_orcamento_id == NextId(sql_orc)
    IN /\ q.handler = handler /\ q.pc = "insert_orcamento"
       /\ req' = [req EXCEPT ![r] =
                    [q EXCEPT !.pc = "insert_itens", !.loc.novo_id = novo_orcamento_id,
                              !.loc.i = 1,
                              !.tx = TxInsert(q, sql_orc,
                                        NovoOrcamento(novo_orcamento_id, q.loc.cliente_id))]]
       /\ UNCHANGED <<db, now, tokens>>

InsertItem(r, handler) ==
    LET q == req[r]
    IN /\ q.handler = handler /\ q.pc = "insert_itens"
       /\ q.loc.i <= Len(q.args.itens.v)
       /\ req' = [req EXCEPT ![r] =
                    [q EXCEPT !.loc.i = @ + 1,
                              !.tx = TxInsert(q, sql_item,
                                        NovoItem(NextId(sql_item), q.loc.novo_id,
                                                 q.args.itens.v[q.loc.i]))]]
       /\ UNCHANGED <<db, now, tokens>>

CommitOrcamento(r, handler) ==
    LET q == req[r]
    IN /\ q.handler = handler /\ q.pc = "insert_itens"
       /\ q.loc.i > Len(q.args.itens.v)
       /\ db' = Commit(db, q.tx)
       /\ req' = [req EXCEPT ![r] = Answer(q, 201)]
       /\ UNCHANGED <<now, tokens>>

\* The values of 'itens' the model sends: absent, not a list, the empty list,
\* and the lists of 1..MaxItens items (the k-th item asks for 10 * k units
\* of a product of the catalogue).
ItemK(k) == [produto_id |-> 1 + (k % Cardinality(Produtos)), quantidade |-> 10 * k]

ItensValidos == {PyList([k \in 1..n |-> ItemK(k)]) : n \in 1..MaxItens}

ItensRejeitados == {PyNone, PyStr(<<"x">>), PyList(<<>>)}

post_novo_orcamento(r, Headers, Itens) ==
    \/ \E header \in Headers, itens \in Itens : NovoStart(r, header, itens)
    \/ InsertOrcamento(r, "post_novo_orcamento")
    \/ InsertItem(r, "post_novo_orcamento")
    \/ CommitOrcamento(r, "post_novo_orcamento")

(***************************************************************************)
(* POST /api/oceano/orcamento/publico                                      *)
(***************************************************************************)
\* The client row INSERTed for a submitter no client matches.
NovoCliente(id, args, novo_codigo_acesso) ==
    [id |-> id, nome_cliente |-> args.nome, email |-> args.email,
     telefone |-> args.whatsapp, codigo_acesso |-> novo_codigo_acesso]

\* SELECT id FROM oceano_clientes WHERE codigo_acesso = %s
ClientePorCodigo(tables, codigo) == {c \in tables["clientes"] : c.codigo_acesso = codigo}

\* The email lookup comparing the wrong column.
ClientePorEmailErrado(tables, email) ==
    {c \in tables["clientes"] : c.nome_cliente = email}

\* SELECT id FROM oceano_clientes WHERE email = %s
ClientePorEmail(tables, email) == {c \in tables["clientes"] : c.email = email}

\* The validation of the body, before a connection is opened: 0 lets the
\* handler go on.
ValidaPublico(args) ==
    IF ItensInvalidos(args.itens) THEN 400
    ELSE IF args.codigo_acesso = NoCode
            /\ (Falsy(args.nome) \/ Falsy(args.email) \/ Falsy(args.whatsapp)) THEN 400
    ELSE IF Falsy(args.email) THEN 400
    ELSE 0

\* Whether a submission accepted now would reach the INSERT of a client.
CriariaCliente(args) ==
    /\ ValidaPublico(args) = 0
    /\ args.codigo_acesso = NoCode
    /\ ClientePorEmail(db, args.email) = {}

PublicoStart(r, args) ==
    /\ Free(r)
    /\ Cardinality(db["orcamentos"]) < MaxOrcamentos
    /\ CriariaCliente(args) =>
          Cardinality({c \in db["clientes"] : c.handler = "post_orcamento_publico"})
             < MaxNovosClientes
    /\ req' = [req EXCEPT ![r] =
                 IF ValidaPublico(args) # 0
                 THEN Rejected("post_orcamento_publico", args, ValidaPublico(args))
                 ELSE Begun("post_orcamento_publico", args, NoLoc,
                            IF args.codigo_acesso # NoCode THEN "select_codigo"
                            ELSE "select_email")]
    /\ UNCHANGED <<db, now, tokens>>

\* PublicoSelectCodigo falling through to the email lookup when the code
\* matches no client.
PublicoSelectCodigoSegue(r) ==
    LET q == req[r]
        cliente_existente == ClientePorCodigo(View(r), q.args.codigo_acesso)
    IN /\ q.handler = "post_orcamento_publico" /\ q.pc = "select_codigo"
       /\ req' = [req EXCEPT ![r] =
                    IF cliente_existente # {}
                    THEN [q EXCEPT !.pc = "insert_orcamento",
                                   !.loc.cliente_id = (CHOOSE c \in cliente_existente : TRUE).id]
                    ELSE [q EXCEPT !.pc = "select_email"]]
       /\ UNCHANGED <<db, now, tokens>>

PublicoSelectCodigo(r) ==
    LET q == req[r]
        cliente_existente == ClientePorCodigo(View(r), q.args.codigo_acesso)
    IN /\ q.handler = "post_orcamento_publico" /\ q.pc = "select_codigo"
       /\ req' = [req EXCEPT ![r] =
                    IF cliente_existente # {}
                    THEN [q EXCEPT !.pc = "insert_orcamento",
                                   !.loc.cliente_id = (CHOOSE c \in cliente_existente : TRUE).id]
                    ELSE Answer(q, 401)]
       /\ UNCHANGED <<db, now, tokens>>

PublicoSelectEmail(r) ==
    LET q == req[r]
        cliente_existente == ClientePorEmail(View(r), q.args.email)
    IN /\ q.handler = "post_orcamento_publico" /\ q.pc = "select_email"
       /\ req' = [req EXCEPT ![r] =
                    IF cliente_existente # {}
                    THEN [q EXCEPT !.pc = "insert_orcamento",
                                   !.loc.cliente_id = (CHOOSE c \in cliente_existente : TRUE).id]
                    ELSE [q EXCEPT !.pc = "insert_cliente", !.loc.is_new_client = TRUE]]
       /\ UNCHANGED <<db, now, tokens>>

\* The unique constraint of oceano_clientes on the email, by the name the
\* handler looks for in the error.
EmailDuplicado(tables, row) == \E c \in tables["clientes"] : c.email = row.email

\* The unique constraint of oceano_clientes on the access code.
CodigoDuplicado(tables, row) ==
    \E c \in tables["clientes"] : c.codigo_acesso = row.codigo_acesso

\* The constraint an INSERT of this client row violates, if any.
ViolacaoUnique(tables, row) ==
    IF EmailDuplicado(tables, row) THEN "oceano_clientes_email_key"
    ELSE IF CodigoDuplicado(tables, row) THEN "oceano_clientes_codigo_acesso_key"
    ELSE ""

\* The except clause without the test for the email key.
StatusIntegrityErrorSem409(constraint) == 500

\* except psycopg2.IntegrityError: 409 for the email key, 500 otherwise.
StatusIntegrityError(constraint) ==
    IF constraint = "oceano_clientes_email_key" THEN 409 ELSE 500

\* Another transaction in progress has inserted a client with the same
\* email or access code: the INSERT waits until that transaction ends, and
\* then meets the unique constraint if it committed.
InsertBloqueado(r, row) ==
    \E s \in Reqs \ {r} : \E c \in req[s].tx.ins["clientes"] :
        c.email = row.email \/ c.codigo_acesso = row.codigo_acesso

PublicoInsertCliente(r) ==
    LET q == req[r]
    IN /\ q.handler = "post_orcamento_publico" /\ q.pc = "insert_cliente"
       /\ \E draw \in RandomDraws :
            LET novo_codigo_acesso == generate_access_code(AccessCodeLength, draw)
                row == NovoCliente(NextId("clientes"), q.args, novo_codigo_acesso)
                violada == ViolacaoUnique(View(r), row)
            IN /\ ~InsertBloqueado(r, row)
               /\ db' = IF violada # "" THEN Rollback(db, q.tx) ELSE db
               /\ req' = [req EXCEPT ![r] =
                            IF violada # ""
                            THEN Answer([q EXCEPT !.loc.raised = violada],
                                        StatusIntegrityError(violada))
                            ELSE [q EXCEPT !.pc = "insert_orcamento",
                                           !.loc.cliente_id = row.id,
                                           !.tx = TxInsert(q, "clientes", row)]]
       /\ UNCHANGED <<now, tokens>>

\* A body of a public submission.
Body(itens, nome, email, whatsapp, codigo) ==
    [NoArgs EXCEPT !.itens = itens, !.nome = nome, !.email = email,
                   !.whatsapp = whatsapp, !.codigo_acesso = codigo]

post_orcamento_publico(r, Bodies) ==
    \/ \E args \in Bodies : PublicoStart(r, args)
    \/ PublicoSelectCodigo(r)
    \/ PublicoSelectEmail(r)
    \/ PublicoInsertCliente(r)
    \/ InsertOrcamento(r, "post_orcamento_publico")
    \/ InsertItem(r, "post_orcamento_publico")
    \/ CommitOrcamento(r, "post_orcamento_publico")

(***************************************************************************)
(* Failure of a request in flight.                                         *)
(***************************************************************************)
\* A statement raises (the connection drops, a constraint of the schema is
\* violated, an item of the body is not an object): every handler's
\* `except Exception` rolls back and answers 500.
Raise(r) ==
    LET q == req[r]
    IN /\ InFlight(r)
       /\ db' = Rollback(db, q.tx)
       /\ req' = [req EXCEPT ![r] = Answer([q EXCEPT !.loc.raised = "Exception"], 500)]
       /\ UNCHANGED <<now, tokens>>

\* The worker process is killed: no except clause runs, nothing is answered,
\* and the server rolls back the transaction of the lost connection.
Interrupt(r) ==
    LET q == req[r]
    IN /\ InFlight(r)
       /\ db' = Rollback(db, q.tx)
       /\ req' = [req EXCEPT ![r] =
                    [q EXCEPT !.pc = "killed", !.tx = EmptyTx, !.conn = FALSE,
                              !.loc.raised = "killed"]]
       /\ UNCHANGED <<now, tokens>>

(***************************************************************************)
(* The installation: the rows the tables are seeded with.                  *)
(***************************************************************************)
Ana == [id |-> 1, nome_cliente |-> "Ana", email |-> "ana@x", telefone |-> "11988",
        codigo_acesso |-> CodigoAna, handler |-> "handle_clientes"]

Bia == [id |-> 2, nome_cliente |-> "Bia", email |-> "bia@x", telefone |-> "11977",
        codigo_acesso |-> CodigoBia, handler |-> "handle_clientes"]

Root == [id |-> 1, username |-> "root", chave_admin |-> "s3nha",
         handler |-> "handle_admins"]

\* The tables as the installation seeds them: the root administrator and
\* two clients the administrator registered.
\* Two products as the admin panel stored them: one with a bare slug and
\* JSON specifications, one with a prefixed slug and plain-text ones.
ProdutoLacre ==
    [id |-> 1, nome_produto |-> "Etiqueta", categoria |-> Lacres, subcategoria |-> NULL,
     url_slug |-> <<"a">>,
     especificacoes_tecnicas |-> <<"{", Aspas, "a", Aspas, ":", Aspas, "b", Aspas, "}">>,
     handler |-> "handle_produtos"]

ProdutoAdesivo ==
    [id |-> 2, nome_produto |-> "Etiqueta", categoria |-> Adesivos, subcategoria |-> <<"x">>,
     url_slug |-> Prefixo \o <<"b">>, especificacoes_tecnicas |-> <<"a">>,
     handler |-> "handle_produtos"]

InitTables ==
    [EmptyTables EXCEPT
        !["admin"] = {Root},
        !["clientes"] = {Ana, Bia},
        !["produtos"] = {ProdutoLacre, ProdutoAdesivo}]

\* The one slot the sequential workflow uses.
Worker == CHOOSE r \in Reqs : \A q \in Reqs : r <= q

\* The tokens a login has issued at hour 0.
TokenRoot == AdminToken(Root, 0)
TokenAna == ClienteToken(Ana, 0)
TokenBia == ClienteToken(Bia, 0)

(***************************************************************************)
(* POST /api/oceano/admin/login and POST /api/oceano/cliente/login         *)
(***************************************************************************)
\* A token a login has issued, with the login that issued it (history).
Issue(token, handler, credential, at) ==
    [token |-> token, handler |-> handler, credential |-> credential, at |-> at]

\* SELECT * FROM oceano_admin WHERE username = %s
AdminPorUsername(tables, username) ==
    {a \in tables["admin"] : a.username = username}

AdminLoginStart(r, username, password) ==
    /\ Free(r)
    /\ Cardinality(tokens) < MaxTokens
    /\ req' = [req EXCEPT ![r] =
                 Begun("admin_login",
                       [NoArgs EXCEPT !.username = username, !.password = password],
                       NoLoc, "select")]
    /\ UNCHANGED <<db, now, tokens>>

\* if admin_user and admin_user['chave_admin'] == password: a password the
\* body does not carry is None, and so is a chave_admin that is NULL.
AdminLoginSelect(r) ==
    LET q == req[r]
        admin_user == AdminPorUsername(View(r), q.args.username)
    IN /\ q.handler = "admin_login" /\ q.pc = "select"
       /\ IF admin_user # {} /\ (CHOOSE a \in admin_user : TRUE).chave_admin = q.args.password
          THEN LET token == AdminToken(CHOOSE a \in admin_user : TRUE, now)
               IN /\ req' = [req EXCEPT ![r] = Answer([q EXCEPT !.loc.token = token], 200)]
                  /\ tokens' = tokens \cup {Issue(token, "admin_login", q.args.username, now)}
          ELSE /\ req' = [req EXCEPT ![r] = Answer(q, 401)]
               /\ tokens' = tokens
       /\ UNCHANGED <<db, now>>

admin_login(r, Usernames, Passwords) ==
    \/ \E username \in Usernames, password \in Passwords :
          AdminLoginStart(r, username, password)
    \/ AdminLoginSelect(r)

ClienteLoginStart(r, codigo_acesso) ==
    /\ Free(r)
    /\ Cardinality(tokens) < MaxTokens
    /\ LET args == [NoArgs EXCEPT !.codigo_acesso = codigo_acesso]
       IN req' = [req EXCEPT ![r] =
                    IF codigo_acesso = NoCode
                    THEN Rejected("cliente_login", args, 400)
                    ELSE Begun("cliente_login", args, NoLoc, "select")]
    /\ UNCHANGED <<db, now, tokens>>

ClienteLoginSelect(r) ==
    LET q == req[r]
        cliente == ClientePorCodigo(View(r), q.args.codigo_acesso)
    IN /\ q.handler = "cliente_login" /\ q.pc = "select"
       /\ IF cliente # {}
          THEN LET row == CHOOSE c \in cliente : TRUE
                   token == ClienteToken(row, now)
               IN /\ req' = [req EXCEPT ![r] =
                               Answer([q EXCEPT !.loc.token = token,
                                                !.loc.cliente_id = row.id], 200)]
                  /\ tokens' = tokens \cup {Issue(token, "cliente_login",
                                                  q.args.codigo_acesso, now)}
          ELSE /\ req' = [req EXCEPT ![r] = Answer(q, 401)]
               /\ tokens' = tokens
       /\ UNCHANGED <<db, now>>

cliente_login(r, Codigos) ==
    \/ \E codigo_acesso \in Codigos : ClienteLoginStart(r, codigo_acesso)
    \/ ClienteLoginSelect(r)

\* datetime.datetime.utcnow(): the clock the tokens are stamped and checked
\* against advances d hours.
Tick(d) ==
    /\ now + d <= MaxTime
    /\ now' = now + d
    /\ UNCHANGED <<db, req, tokens>>

(***************************************************************************)
(* GET /api/oceano/cliente/dashboard and GET /api/oceano/cliente/orcamentos *)
(***************************************************************************)
\* @cliente_token_required in front of a handler that only reads.
ClienteGetStart(r, handler, header) ==
    /\ Free(r)
    /\ LET args == [NoArgs EXCEPT !.header = header]
           gate == cliente_token_required(header, now)
       IN req' = [req EXCEPT ![r] =
                    IF gate.status # 0
                    THEN Rejected(handler, args, gate.status)
                    ELSE Begun(handler, args,
                               [NoLoc EXCEPT !.cliente_id = gate.kwargs.cliente_id],
                               "select")]
    /\ UNCHANGED <<db, now, tokens>>

\* The three counters of the dashboard.
Stats(tables, cliente_id) ==
    {[stat |-> "stat_aguardando_pagamento",
      n |-> Cardinality({o \in tables["orcamentos"] :
                            o.cliente_id = cliente_id /\ o.status = AguardandoPagamento})],
     [stat |-> "stat_em_producao",
      n |-> Cardinality({p \in tables["pedidos"] :
                            p.cliente_id = cliente_id /\ p.status = EmProducao})],
     [stat |-> "stat_prontos",
      n |-> Cardinality({p \in tables["pedidos"] :
                            p.cliente_id = cliente_id
                            /\ p.status \in {Enviado, "Pronto para Retirada"}})]}

DashboardSelect(r) ==
    LET q == req[r]
    IN /\ q.handler = "get_cliente_dashboard" /\ q.pc = "select"
       /\ req' = [req EXCEPT ![r] =
                    Answer([q EXCEPT !.loc.body = Stats(View(r), q.loc.cliente_id)], 200)]
       /\ UNCHANGED <<db, now, tokens>>

get_cliente_dashboard(r, Headers) ==
    \/ \E header \in Headers : ClienteGetStart(r, "get_cliente_dashboard", header)
    \/ DashboardSelect(r)

\* (sql_orc) UNION ALL (sql_ped): the quotes and the orders of the client.
Documentos(tables, cliente_id) ==
    {[tipo |-> "orcamento", id |-> o.id, status |-> o.status] :
        o \in {x \in tables["orcamentos"] : x.cliente_id = cliente_id}}
    \cup {[tipo |-> "pedido", id |-> p.id, status |-> p.status] :
        p \in {x \in tables["pedidos"] : x.cliente_id = cliente_id}}

OrcamentosSelect(r) ==
    LET q == req[r]
    IN /\ q.handler = "get_cliente_orcamentos" /\ q.pc = "select"
       /\ req' = [req EXCEPT ![r] =
                    Answer([q EXCEPT !.loc.body = Documentos(View(r), q.loc.cliente_id)],
                           200)]
       /\ UNCHANGED <<db, now, tokens>>

get_cliente_orcamentos(r, Headers) ==
    \/ \E header \in Headers : ClienteGetStart(r, "get_cliente_orcamentos", header)
    \/ OrcamentosSelect(r)

(***************************************************************************)
(* POST /api/oceano/chat                                                   *)
(***************************************************************************)
\* int(pedido_id_str): the number a text of digits writes; ValueError for
\* any other text; TypeError for None.
int(x) ==
    IF x = NULL THEN [raises |-> "TypeError", v |-> 0]
    ELSE IF x # <<>> /\ DigitsEnd(x, 1) = Len(x) + 1
    THEN [raises |-> "", v |-> IntOf(x, 1, Len(x) + 1, 0)]
    ELSE [raises |-> "ValueError", v |-> 0]

\* The two SELECTs without `AND cliente_id = %s`.
tool_check_status_pedido_sem_cliente(tables, pedido_id, cliente_id) ==
    LET orcs == {o \in tables["orcamentos"] : o.id = pedido_id}
        peds == {p \in tables["pedidos"] : p.id = pedido_id}
    IN IF orcs # {}
       THEN {[tipo |-> "Orçamento", id |-> o.id, status |-> o.status] : o \in orcs}
       ELSE {[tipo |-> "Pedido", id |-> p.id, status |-> p.status] : p \in peds}

\* tool_check_status_pedido(pedido_id, cliente_id): the quote of that id and
\* client, else the order of that id and client, else an error (no document).
tool_check_status_pedido(tables, pedido_id, cliente_id) ==
    LET orcs == {o \in tables["orcamentos"] : o.id = pedido_id /\ o.cliente_id = cliente_id}
        peds == {p \in tables["pedidos"] : p.id = pedido_id /\ p.cliente_id = cliente_id}
    IN IF orcs # {}
       THEN {[tipo |-> "Orçamento", id |-> o.id, status |-> o.status] : o \in orcs}
       ELSE {[tipo |-> "Pedido", id |-> p.id, status |-> p.status] : p \in peds}

\* What a tool returns, decoded: the error message if any, the id the
\* message quotes, and the data.
ToolResult(erro, id, data) == [erro |-> erro, id |-> id, data |-> data]

\* The whole of tool_check_status_pedido, from the argument as the model
\* gave it; falha: the connection or a query raises.  int(None) is not
\* caught by `except ValueError` and leaves the tool.
check_status_pedido(tables, pedido_id_str, cliente_id, falha) ==
    LET pedido_id == int(pedido_id_str)
        docs == tool_check_status_pedido(tables, pedido_id.v, cliente_id)
    IN IF pedido_id.raises = "TypeError"
       THEN [raises |-> "TypeError", result |-> ToolResult("", 0, {})]
       ELSE [raises |-> "",
             result |->
                IF pedido_id.raises = "ValueError"
                THEN ToolResult("ID do pedido inválido. Deve ser um número.", 0, {})
                ELSE IF falha
                THEN ToolResult("Erro interno ao consultar o banco de dados.", 0, {})
                ELSE IF docs = {}
                THEN ToolResult("Nenhum orçamento ou pedido com o ID foi encontrado para este cliente.",
                                pedido_id.v, {})
                ELSE ToolResult("", pedido_id.v, docs)]

Geral == <<"G", "e", "r", "a", "l">>

\* tool_get_product_list(): category, subcategory ('Geral' for none) and
\* name of the products that have a category.
tool_get_product_list(tables) ==
    {[categoria |-> p.categoria,
      subcategoria |-> IF Truthy(p.subcategoria) THEN p.subcategoria ELSE Geral,
      nome_produto |-> p.nome_produto] : p \in {x \in tables["produtos"] : Truthy(x.categoria)}}

get_product_list(tables, falha) ==
    IF falha THEN ToolResult("Erro interno ao consultar o catálogo de produtos.", 0, {})
    ELSE IF tool_get_product_list(tables) = {}
    THEN ToolResult("Nenhum produto encontrado no catálogo.", 0, {})
    ELSE ToolResult("", 0, tool_get_product_list(tables))

\* The parts of a response of the model: a text, or a function call with
\* its name and its 'pedido_id' argument (NULL: not given).
TextPart(text) == [function_call |-> FALSE, name |-> "", pedido_id |-> NULL, text |-> text]

FunctionCall(name, pedido_id) ==
    [function_call |-> TRUE, name |-> name, pedido_id |-> pedido_id, text |-> ""]

Desculpe == "Desculpe, tive um problema interno ao processar sua solicitação."

NaoConfigurada == "Desculpe, a Inteligência Artificial não está configurada."

\* An entry of 'history' is the set of its keys; the loop reads
\* item['role'] and item['content'] of each.
KeyError(history) ==
    \E k \in 1..Len(history) : ~({"role", "content"} \subseteq history[k])

\* The except clause of handle_chat: the apology, with status 500.
ChatExcept(q, e) ==
    Answer([q EXCEPT !.loc.raised = e, !.loc.texto = Desculpe], 500)

\* gemini_model is None when GEMINI_API_KEY was not configured.  The history
\* is read before the try: a KeyError there is no response of the handler,
\* and Flask answers 500 with its own page.
ChatStart(r, header, gemini_model, history) ==
    /\ Free(r)
    /\ LET args == [NoArgs EXCEPT !.header = header, !.gemini_model = gemini_model,
                                  !.history = history]
           gate == cliente_token_required(header, now)
           loc == [NoLoc EXCEPT !.cliente_id = gate.kwargs.cliente_id]
       IN req' = [req EXCEPT ![r] =
                    IF gate.status # 0
                    THEN Rejected("handle_chat", args, gate.status)
                    ELSE IF ~gemini_model
                    THEN [Rejected("handle_chat", args, 500)
                             EXCEPT !.loc = [loc EXCEPT !.texto = NaoConfigurada]]
                    ELSE IF KeyError(history)
                    THEN [Rejected("handle_chat", args, 500)
                             EXCEPT !.loc = [loc EXCEPT !.raised = "uncaught KeyError"]]
                    ELSE [Begun("handle_chat", args, loc, "send_message")
                             EXCEPT !.conn = FALSE]]
    /\ UNCHANGED <<db, now, tokens>>

\* The function calls among the parts of a response.
FunctionCalls(parts) == SelectSeq(parts, LAMBDA part : part.function_call)

\* chat.send_message returns: the model has answered with these parts.
\* The model asks for tools in at most MaxToolCalls of its responses.
ChatSendMessage(r, parts) ==
    LET q == req[r]
    IN /\ q.handler = "handle_chat" /\ q.pc = "send_message"
       /\ FunctionCalls(parts) # <<>> => q.loc.i < MaxToolCalls
       /\ req' = [req EXCEPT ![r] =
                    [q EXCEPT !.pc = "while", !.loc.response = parts,
                              !.loc.function_calls = @ \o FunctionCalls(parts)]]
       /\ UNCHANGED <<db, now, tokens>>

\* chat.send_message raises: the external service failed.
ChatSendMessageRaises(r) ==
    LET q == req[r]
    IN /\ q.handler = "handle_chat" /\ q.pc = "send_message"
       /\ req' = [req EXCEPT ![r] = ChatExcept(q, "Exception")]
       /\ UNCHANGED <<db, now, tokens>>

\* The body of the while loop: parts[0] is a function call; the handler runs
\* the tool with the cliente_id of the token and sends one function
\* response, the tool's result or 'Ferramenta não reconhecida'.  The call a
\* function response answers is kept with it (history).
ChatToolCall(r, falha) ==
    LET q == req[r]
        function_call == q.loc.response[1]
        tool == IF function_call.name = "check_status_pedido"
                THEN check_status_pedido(db, function_call.pedido_id, q.loc.cliente_id, falha)
                ELSE IF function_call.name = "get_product_list"
                THEN [raises |-> "", result |-> get_product_list(db, falha)]
                ELSE [raises |-> "",
                      result |-> ToolResult("Ferramenta não reconhecida.", 0, {})]
    IN /\ q.handler = "handle_chat" /\ q.pc = "while"
       /\ function_call.function_call
       /\ req' = [req EXCEPT ![r] =
                    IF tool.raises # ""
                    THEN ChatExcept(q, tool.raises)
                    ELSE [q EXCEPT !.pc = "send_message", !.loc.i = @ + 1,
                                   !.loc.function_responses =
                                      Append(@, [name |-> function_call.name,
                                                 response |-> tool.result,
                                                 call |-> function_call])]]
       /\ UNCHANGED <<db, now, tokens>>

\* parts[0] is no function call: its text is the final answer.
ChatAnswer(r) ==
    LET q == req[r]
    IN /\ q.handler = "handle_chat" /\ q.pc = "while"
       /\ ~q.loc.response[1].function_call
       /\ req' = [req EXCEPT ![r] =
                    Answer([q EXCEPT !.loc.texto = q.loc.response[1].text], 200)]
       /\ UNCHANGED <<db, now, tokens>>

handle_chat(r, Headers, Configs, Histories, Responses) ==
    \/ \E header \in Headers, gemini_model \in Configs, history \in Histories :
          ChatStart(r, header, gemini_model, history)
    \/ \E parts \in Responses : ChatSendMessage(r, parts)
    \/ ChatSendMessageRaises(r)
    \/ \E falha \in BOOLEAN : ChatToolCall(r, falha)
    \/ ChatAnswer(r)

\* The responses of one part: a text, or one call of a tool by a name the
\* handler knows or does not know.
FunctionNames == {"check_status_pedido", "get_product_list", "outra"}

UmaParte ==
    {<<TextPart("Olá")>>}
    \cup {<<FunctionCall(name, pedido_id)>> :
             name \in FunctionNames, pedido_id \in {<<"1">>, <<"2">>}}

\* A short conversation: the model asks for the status of document 1 or
\* answers.
Conversa == {<<TextPart("Olá")>>, <<FunctionCall("check_status_pedido", <<"1">>)>>}

(***************************************************************************)
(* POST /api/oceano/admin/users, /admin/clientes and /admin/produtos       *)
(***************************************************************************)
\* @admin_token_required in front of a handler that INSERTs one row.
AdminPostStart(r, handler, table, header, args) ==
    /\ Free(r)
    /\ NextId(table) <= Cardinality(InitTables[table]) + MaxCadastros
    /\ LET gate == admin_token_required(header, now)
           a == [args EXCEPT !.header = header]
       IN req' = [req EXCEPT ![r] =
                    IF gate.status # 0
                    THEN Rejected(handler, a, gate.status)
                    ELSE Begun(handler, a, NoLoc, "insert")]
    /\ UNCHANGED <<db, now, tokens>>

\* conn.commit() and the 201 of the three handlers.
AdminPostCommit(r, handler) ==
    LET q == req[r]
    IN /\ q.handler = handler /\ q.pc = "commit"
       /\ db' = Commit(db, q.tx)
       /\ req' = [req EXCEPT ![r] = Answer(q, 201)]
       /\ UNCHANGED <<now, tokens>>

\* INSERT INTO oceano_admin (username, chave_admin): both as the body gives
\* them, None included.
NovoAdmin(id, args) ==
    [id |-> id, username |-> args.username, chave_admin |-> args.chave_admin]

\* The unique constraint of oceano_admin on the username.
UsernameDuplicado(tables, row) ==
    \E a \in tables["admin"] : a.username = row.username

AdminsInsert(r) ==
    LET q == req[r]
        row == NovoAdmin(NextId("admin"), q.args)
    IN /\ q.handler = "handle_admins" /\ q.pc = "insert"
       /\ db' = IF UsernameDuplicado(View(r), row) THEN Rollback(db, q.tx) ELSE db
       /\ req' = [req EXCEPT ![r] =
                    IF UsernameDuplicado(View(r), row)
                    THEN Answer([q EXCEPT !.loc.raised = "oceano_admin_username_key"], 409)
                    ELSE [q EXCEPT !.pc = "commit", !.loc.novo_id = row.id,
                                   !.tx = TxInsert(q, "admin", row)]]
       /\ UNCHANGED <<now, tokens>>

AdminBody(username, chave_admin) ==
    [NoArgs EXCEPT !.username = username, !.chave_admin = chave_admin]

handle_admins(r, Headers, Bodies) ==
    \/ \E header \in Headers, args \in Bodies :
          AdminPostStart(r, "handle_admins", "admin", header, args)
    \/ AdminsInsert(r)
    \/ AdminPostCommit(r, "handle_admins")

\* INSERT INTO oceano_clientes (nome_cliente, email, telefone, cnpj_cpf,
\* codigo_acesso); any IntegrityError is answered 409.
ClientesInsert(r) ==
    LET q == req[r]
        row == NovoCliente(NextId("clientes"), q.args, q.args.codigo_acesso)
        violada == ViolacaoUnique(View(r), row)
    IN /\ q.handler = "handle_clientes" /\ q.pc = "insert"
       /\ db' = IF violada # "" THEN Rollback(db, q.tx) ELSE db
       /\ req' = [req EXCEPT ![r] =
                    IF violada # ""
                    THEN Answer([q EXCEPT !.loc.raised = violada], 409)
                    ELSE [q EXCEPT !.pc = "commit", !.loc.novo_id = row.id,
                                   !.tx = TxInsert(q, "clientes", row)]]
       /\ UNCHANGED <<now, tokens>>

handle_clientes(r, Headers, Bodies) ==
    \/ \E header \in Headers, args \in Bodies :
          AdminPostStart(r, "handle_clientes", "clientes", header, args)
    \/ ClientesInsert(r)
    \/ AdminPostCommit(r, "handle_clientes")

\* INSERT INTO oceano_produtos (nome_produto, ...)
NovoProduto(id, args) ==
    [id |-> id, nome_produto |-> args.nome, categoria |-> args.categoria,
     subcategoria |-> args.subcategoria, url_slug |-> args.url_slug,
     especificacoes_tecnicas |-> args.especificacoes_tecnicas]

\* The unique constraint of oceano_produtos on the slug: no two rows store
\* the same text; NULL is not a text.
SlugDuplicado(tables, row) ==
    /\ row.url_slug # NULL
    /\ \E p \in tables["produtos"] : p.url_slug = row.url_slug

\* The INSERT; an IntegrityError falls to `except Exception`: rollback, 500.
ProdutosInsert(r) ==
    LET q == req[r]
        row == NovoProduto(NextId("produtos"), q.args)
    IN /\ q.handler = "handle_produtos" /\ q.pc = "insert"
       /\ db' = IF SlugDuplicado(View(r), row) THEN Rollback(db, q.tx) ELSE db
       /\ req' = [req EXCEPT ![r] =
                    IF SlugDuplicado(View(r), row)
                    THEN Answer([q EXCEPT !.loc.raised = "IntegrityError"], 500)
                    ELSE [q EXCEPT !.pc = "commit", !.loc.novo_id = row.id,
                                   !.tx = TxInsert(q, "produtos", row)]]
       /\ UNCHANGED <<now, tokens>>

handle_produtos(r, Headers, Bodies) ==
    \/ \E header \in Headers, args \in Bodies :
          AdminPostStart(r, "handle_produtos", "produtos", header, args)
    \/ ProdutosInsert(r)
    \/ AdminPostCommit(r, "handle_produtos")

ProdutoBody(nome, categoria, subcategoria, url_slug, especificacoes_tecnicas) ==
    [NoArgs EXCEPT !.nome = nome, !.categoria = categoria, !.subcategoria = subcategoria,
                   !.url_slug = url_slug,
                   !.especificacoes_tecnicas = especificacoes_tecnicas]

(***************************************************************************)
(* The navigation menu: inject_dynamic_menu, run for every rendered page.  *)
(***************************************************************************)
\* SELECT nome_produto, url_slug, categoria, subcategoria FROM oceano_produtos
\* WHERE categoria IS NOT NULL AND categoria != '' AND url_slug IS NOT NULL
\* AND url_slug != ''
ProdutosDoMenu(tables) ==
    {p \in tables["produtos"] : Truthy(p.categoria) /\ Truthy(p.url_slug)}

\* The stored slug with its '/produtos/' prefix stripped if it has one, and
\* the prefix put in front.
url_final_para_link(slug_do_bd) ==
    LET slug_limpo == IF startswith(slug_do_bd, Prefixo)
                      THEN SubSeq(slug_do_bd, Len(Prefixo) + 1, Len(slug_do_bd))
                      ELSE slug_do_bd
    IN Prefixo \o slug_limpo

\* One entry of the menu, with the subcategory it is filed under.
produto_data(p) ==
    [subcat |-> IF Truthy(p.subcategoria) THEN p.subcategoria ELSE Outros,
     nome |-> p.nome_produto, url |-> url_final_para_link(p.url_slug)]

\* menu_data after the loop: the keys are those of categorias_ordem, in that
\* order, and a product is filed only `if cat in menu_data`.  The entries of
\* one category are kept as a set: their order is the query's ORDER BY.
menu_data(tables) ==
    [k \in 1..Len(categorias_ordem) |->
        [categoria |-> categorias_ordem[k],
         produtos |-> {produto_data(p) :
                         p \in {x \in ProdutosDoMenu(tables) :
                                   x.categoria = categorias_ordem[k]}}]]

\* inject_dynamic_menu letting the failure of its query out.
inject_dynamic_menu_sem_except(tables, falha) ==
    [ok |-> ~falha, menu_categorias |-> IF falha THEN <<>> ELSE menu_data(tables)]

\* falha: get_db_connection or the query raises.  The except clause returns
\* an empty OrderedDict.
inject_dynamic_menu(tables, falha) ==
    [ok |-> TRUE, menu_categorias |-> IF falha THEN <<>> ELSE menu_data(tables)]

\* render_template: the context processor runs on its own connection, which
\* sees the committed tables; what it raises, render_template raises.
render_template(q, falha) ==
    LET ctx == inject_dynamic_menu(db, falha)
    IN IF ctx.ok
       THEN Answer([q EXCEPT !.loc.rendered = TRUE, !.loc.falha_menu = falha,
                             !.loc.menu_categorias = ctx.menu_categorias], 200)
       ELSE Answer([q EXCEPT !.loc.raised = "Exception", !.loc.falha_menu = falha], 500)

\* GET /: render_template('index.html'), no connection of its own.
index_route(r) ==
    /\ Free(r)
    /\ \E falha \in BOOLEAN :
          req' = [req EXCEPT ![r] =
                    render_template([IdleReq EXCEPT !.handler = "index_route",
                                                    !.pre = db, !.at = now], falha)]
    /\ UNCHANGED <<db, now, tokens>>

(***************************************************************************)
(* GET /api/produtos                                                       *)
(***************************************************************************)
ApiProdutosStart(r, categoria) ==
    /\ Free(r)
    /\ req' = [req EXCEPT ![r] =
                 Begun("get_api_produtos", [NoArgs EXCEPT !.categoria = categoria],
                       NoLoc, "select")]
    /\ UNCHANGED <<db, now, tokens>>

\* SELECT id, nome_produto, ..., categoria, subcategoria, ..., url_slug FROM
\* oceano_produtos ORDER BY nome_produto: every row, whatever the query
\* string of the request.
ProdutosListados(tables) ==
    {[id |-> p.id, nome_produto |-> p.nome_produto, categoria |-> p.categoria,
      subcategoria |-> p.subcategoria, url_slug |-> p.url_slug] : p \in tables["produtos"]}

ApiProdutosSelect(r) ==
    LET q == req[r]
    IN /\ q.handler = "get_api_produtos" /\ q.pc = "select"
       /\ req' = [req EXCEPT ![r] =
                    Answer([q EXCEPT !.loc.body = ProdutosListados(View(r))], 200)]
       /\ UNCHANGED <<db, now, tokens>>

get_api_produtos(r, Categorias) ==
    \/ \E categoria \in Categorias : ApiProdutosStart(r, categoria)
    \/ ApiProdutosSelect(r)

(***************************************************************************)
(* GET /produtos/<slug>                                                    *)
(***************************************************************************)
DetalheStart(r, slug) ==
    /\ Free(r)
    /\ req' = [req EXCEPT ![r] =
                 Begun("produto_detalhe", [NoArgs EXCEPT !.slug = slug], NoLoc, "select")]
    /\ UNCHANGED <<db, now, tokens>>

\* SELECT * FROM oceano_produtos WHERE url_slug = %s
ProdutoPorSlug(tables, url_slug) == {p \in tables["produtos"] : p.url_slug = url_slug}

\* The lookup by the bare slug only.
BuscaProdutoSemPrefixo(tables, slug) == ProdutoPorSlug(tables, slug)

\* The rows fetchone() can give to `produto`: by '/produtos/<slug>', and if
\* that finds none, by the slug as given.
BuscaProduto(tables, slug) ==
    IF ProdutoPorSlug(tables, Prefixo \o slug) # {}
    THEN ProdutoPorSlug(tables, Prefixo \o slug)
    ELSE ProdutoPorSlug(tables, slug)

\* specs_dict without the except clause's wrapping: the text as it is.
specs_dict_sem_descricao(specs_json_string) ==
    IF ~Truthy(specs_json_string) THEN JDict(<<>>)
    ELSE IF json_loads(specs_json_string).ok THEN json_loads(specs_json_string).v
    ELSE JStr(specs_json_string)

\* specs_dict: {} for no text, json.loads of the text, or the text under the
\* key 'Descrição' on JSONDecodeError.
specs_dict(specs_json_string) ==
    IF ~Truthy(specs_json_string) THEN JDict(<<>>)
    ELSE IF json_loads(specs_json_string).ok THEN json_loads(specs_json_string).v
    ELSE JDict(<< <<Descricao, JStr(specs_json_string)>> >>)

DetalheSelect(r) ==
    LET q == req[r]
        achados == BuscaProduto(View(r), q.args.slug)
    IN /\ q.handler = "produto_detalhe" /\ q.pc = "select"
       /\ IF achados = {}
          THEN req' = [req EXCEPT ![r] = Answer(q, 404)]
          ELSE \E produto \in achados :
                  req' = [req EXCEPT ![r] =
                            [q EXCEPT !.pc = "render", !.loc.produto = <<produto>>,
                                      !.loc.specs =
                                          specs_dict(produto.especificacoes_tecnicas)]]
       /\ UNCHANGED <<db, now, tokens>>

DetalheRender(r) ==
    LET q == req[r]
    IN /\ q.handler = "produto_detalhe" /\ q.pc = "render"
       /\ \E falha \in BOOLEAN : req' = [req EXCEPT ![r] = render_template(q, falha)]
       /\ UNCHANGED <<db, now, tokens>>

produto_detalhe(r, Slugs) ==
    \/ \E slug \in Slugs : DetalheStart(r, slug)
    \/ DetalheSelect(r)
    \/ DetalheRender(r)

(***************************************************************************)
(* DELETE /api/oceano/admin/users/<id> and /api/oceano/admin/clientes/<id> *)
(***************************************************************************)
\* handle_admin_id without the test of the id.
AdminIdStartSemProtecao(r, header, id) ==
    /\ Free(r)
    /\ LET args == [NoArgs EXCEPT !.header = header, !.id = id]
           gate == admin_token_required(header, now)
       IN req' = [req EXCEPT ![r] =
                    IF gate.status # 0
                    THEN Rejected("handle_admin_id", args, gate.status)
                    ELSE Begun("handle_admin_id", args, NoLoc, "delete")]
    /\ UNCHANGED <<db, now, tokens>>

\* @admin_token_required, then `if id == 1: return ..., 403` before any
\* connection is opened.
AdminIdStart(r, header, id) ==
    /\ Free(r)
    /\ LET args == [NoArgs EXCEPT !.header = header, !.id = id]
           gate == admin_token_required(header, now)
       IN req' = [req EXCEPT ![r] =
                    IF gate.status # 0
                    THEN Rejected("handle_admin_id", args, gate.status)
                    ELSE IF id = 1
                    THEN Rejected("handle_admin_id", args, 403)
                    ELSE Begun("handle_admin_id", args, NoLoc, "delete")]
    /\ UNCHANGED <<db, now, tokens>>

\* DELETE FROM oceano_admin WHERE id = %s
AdminIdDelete(r) ==
    LET q == req[r]
    IN /\ q.handler = "handle_admin_id" /\ q.pc = "delete"
       /\ req' = [req EXCEPT ![r] =
                    [q EXCEPT !.pc = "commit", !.tx = TxDelete(q.tx, "admin", q.args.id)]]
       /\ UNCHANGED <<db, now, tokens>>

\* conn.commit() and the 200 of the two DELETE handlers.
DeleteCommit(r, handler) ==
    LET q == req[r]
    IN /\ q.handler = handler /\ q.pc = "commit"
       /\ db' = Commit(db, q.tx)
       /\ req' = [req EXCEPT ![r] = Answer(q, 200)]
       /\ UNCHANGED <<now, tokens>>

handle_admin_id(r, Headers, Ids) ==
    \/ \E header \in Headers, id \in Ids : AdminIdStart(r, header, id)
    \/ AdminIdDelete(r)
    \/ DeleteCommit(r, "handle_admin_id")

ClienteIdStart(r, header, id) ==
    /\ Free(r)
    /\ LET args == [NoArgs EXCEPT !.header = header, !.id = id]
           gate == admin_token_required(header, now)
       IN req' = [req EXCEPT ![r] =
                    IF gate.status # 0
                    THEN Rejected("handle_cliente_id", args, gate.status)
                    ELSE Begun("handle_cliente_id", args, NoLoc, "delete")]
    /\ UNCHANGED <<db, now, tokens>>

\* The foreign keys of oceano_orcamentos and oceano_pedidos on the client:
\* a DELETE of a client that a quote or an order references raises
\* ForeignKeyViolation (pgcode 23503) and deletes nothing.
ClienteReferenciado(tables, id) ==
    \/ \E o \in tables["orcamentos"] : o.cliente_id = id
    \/ \E p \in tables["pedidos"] : p.cliente_id = id

\* except psycopg2.Error answering 500 whatever the pgcode.
StatusErroDeDBSemFK(pgcode) == 500

\* except psycopg2.Error: 409 for pgcode 23503, 500 otherwise.
StatusErroDeDB(pgcode) == IF pgcode = "23503" THEN 409 ELSE 500

\* DELETE FROM oceano_clientes WHERE id = %s
ClienteIdDelete(r) ==
    LET q == req[r]
    IN /\ q.handler = "handle_cliente_id" /\ q.pc = "delete"
       /\ db' = IF ClienteReferenciado(View(r), q.args.id) THEN Rollback(db, q.tx) ELSE db
       /\ req' = [req EXCEPT ![r] =
                    IF ClienteReferenciado(View(r), q.args.id)
                    THEN Answer([q EXCEPT !.loc.raised = "23503"], StatusErroDeDB("23503"))
                    ELSE [q EXCEPT !.pc = "commit",
                                   !.tx = TxDelete(q.tx, "clientes", q.args.id)]]
       /\ UNCHANGED <<now, tokens>>

handle_cliente_id(r, Headers, Ids) ==
    \/ \E header \in Headers, id \in Ids : ClienteIdStart(r, header, id)
    \/ ClienteIdDelete(r)
    \/ DeleteCommit(r, "handle_cliente_id")

(***************************************************************************)
(* The initial state.                                                      *)
(***************************************************************************)
Init ==
    /\ db = InitTables
    /\ req = [r \in Reqs |-> IdleReq]
    /\ now = 0
    /\ tokens = {}

(***************************************************************************)
(* Spec: the quote -> order workflow, one request at a time.               *)
(***************************************************************************)
Next ==
    \/ post_novo_orcamento(Worker, {Bearer(TokenAna), Bearer(TokenBia)}, ItensValidos)
    \/ handle_orcamento_id(Worker, {Bearer(TokenRoot)}, {1}, StatusOrcamento)
    \/ aprovar_orcamento(Worker, {Bearer(TokenRoot), Bearer(TokenAna)},
                         1..MaxOrcamentos + 1)
    \/ Raise(Worker)
    \/ Interrupt(Worker)

Spec == Init /\ [][Next]_vars

(***************************************************************************)
(* SpecCriacao: the two entry points that create quotes, one request at a  *)
(* time, with every kind of body.                                          *)
(***************************************************************************)
BodiesCriacao ==
    {Body(itens, nome, email, whatsapp, codigo) :
        itens \in ItensRejeitados \cup ItensValidos, nome \in {None, "Novo"},
        email \in {None, "ana@x", "novo@x"}, whatsapp \in {"", "11999"},
        codigo \in {NoCode, CodigoBia, CodigoErrado}}

NextCriacao ==
    \/ post_novo_orcamento(Worker, {Bearer(TokenAna), Bearer(TokenRoot)},
                           ItensRejeitados \cup ItensValidos)
    \/ post_orcamento_publico(Worker, BodiesCriacao)
    \/ Raise(Worker)
    \/ Interrupt(Worker)

SpecCriacao == Init /\ [][NextCriacao]_vars

(***************************************************************************)
(* SpecEscritas: every handler modelled that writes, and the chat with its *)
(* tools, one request at a time.                                           *)
(***************************************************************************)
UmItem == PyList(<<ItemK(1)>>)

CodigoCaio == <<"C", "A", "I", "O">>

NextEscritas ==
    \/ post_novo_orcamento(Worker, {Bearer(TokenAna)}, {UmItem})
    \/ post_orcamento_publico(Worker, {Body(UmItem, "Novo", "novo@x", "11999", NoCode),
                                       Body(UmItem, "Novo", "novo@x", "11999", CodigoBia)})
    \/ handle_orcamento_id(Worker, {Bearer(TokenRoot)}, {1}, {AguardandoPagamento})
    \/ aprovar_orcamento(Worker, {Bearer(TokenRoot)}, {1})
    \/ handle_pedido_id(Worker, {Bearer(TokenRoot)}, {1})
    \/ handle_clientes(Worker, {Bearer(TokenRoot)},
                       {Body(PyNone, "Caio", "caio@x", "11966", CodigoCaio)})
    \/ handle_produtos(Worker, {Bearer(TokenRoot)},
                       {Body(PyNone, "Rótulo", None, None, NoCode)})
    \/ handle_admins(Worker, {Bearer(TokenRoot)}, {AdminBody("eva", "outra")})
    \/ handle_chat(Worker, {Bearer(TokenAna)}, {TRUE}, {<<>>}, Conversa)
    \/ Raise(Worker)
    \/ Interrupt(Worker)

SpecEscritas == Init /\ [][NextEscritas]_vars

(***************************************************************************)
(* SpecTransacoes: the three handlers that write several rows in one       *)
(* transaction, one request at a time, with a statement that may raise at  *)
(* any point.                                                              *)
(***************************************************************************)
NextTransacoes ==
    \/ post_novo_orcamento(Worker, {Bearer(TokenAna)}, ItensValidos)
    \/ post_orcamento_publico(Worker,
          {Body(itens, "Novo", "novo@x", "11999", codigo) :
              itens \in ItensValidos, codigo \in {NoCode, CodigoBia}})
    \/ handle_orcamento_id(Worker, {Bearer(TokenRoot)}, {1}, {AguardandoPagamento})
    \/ Raise(Worker)

SpecTransacoes == Init /\ [][NextTransacoes]_vars

(***************************************************************************)
(* SpecAprovacoes: approve requests for the same quote on both request     *)
(* slots, in any interleaving of their statements.                         *)
(***************************************************************************)
NextAprovacoes ==
    \/ post_novo_orcamento(Worker, {Bearer(TokenAna)}, {UmItem})
    \/ \E r \in Reqs : aprovar_orcamento(r, {Bearer(TokenRoot)}, {1})

SpecAprovacoes == Init /\ [][NextAprovacoes]_vars

(***************************************************************************)
(* SpecSubmissoes: public submissions with the same new email on both      *)
(* request slots, in any interleaving of their statements; a statement of  *)
(* the first slot may raise.                                               *)
(***************************************************************************)
NextSubmissoes ==
    \/ \E r \in Reqs :
          post_orcamento_publico(r, {Body(UmItem, "Novo", "novo@x", "11999", codigo) :
                                        codigo \in {NoCode, CodigoBia}})
    \/ Raise(Worker)

SpecSubmissoes == Init /\ [][NextSubmissoes]_vars

(***************************************************************************)
(* SpecLogin: the administrator accounts and the two logins.               *)
(***************************************************************************)
NextLogin ==
    \/ handle_admins(Worker, {Bearer(TokenRoot), NoHeader},
                     {AdminBody(username, chave_admin) :
                         username \in {"root", "eva"}, chave_admin \in {None, "outra"}})
    \/ admin_login(Worker, {None, "root", "eva"}, {None, "s3nha", "outra"})
    \/ cliente_login(Worker, {NoCode, CodigoAna, CodigoErrado})
    \/ Raise(Worker)
    \/ Interrupt(Worker)

SpecLogin == Init /\ [][NextLogin]_vars

(***************************************************************************)
(* SpecSessao: customer logins, the clock, and the customer endpoints      *)
(* called with the tokens the logins issued.                               *)
(***************************************************************************)
HeadersEmitidos == {Bearer(t.token) : t \in tokens}

NextSessao ==
    \/ cliente_login(Worker, {CodigoAna, CodigoBia, CodigoErrado})
    \/ \E d \in {AdminTokenHours, ClienteTokenHours} : Tick(d)
    \/ get_cliente_dashboard(Worker, HeadersEmitidos \cup {NoHeader})
    \/ get_cliente_orcamentos(Worker, HeadersEmitidos \cup {NoHeader})
    \/ post_novo_orcamento(Worker, HeadersEmitidos \cup {NoHeader}, {PyNone, UmItem})
    \/ handle_chat(Worker, HeadersEmitidos \cup {NoHeader}, BOOLEAN, {<<>>}, Conversa)
    \/ Raise(Worker)
    \/ Interrupt(Worker)

SpecSessao == Init /\ [][NextSessao]_vars

(***************************************************************************)
(* SpecPapeis: both logins and the endpoints of both roles, called with    *)
(* every token issued and with headers that carry none.                    *)
(***************************************************************************)
\* Tokens signed with another key.
TokenAdminForjado ==
    JwtEncode([admin_id |-> Root.id, username |-> Root.username,
               exp |-> MaxTime + AdminTokenHours], "outra-chave")

TokenClienteForjado ==
    JwtEncode([cliente_id |-> Ana.id, nome_cliente |-> Ana.nome_cliente,
               exp |-> MaxTime + ClienteTokenHours], "outra-chave")

HeadersSemToken ==
    {NoHeader, OnePart, Bearer(EmptyToken), Bearer(TokenAdminForjado),
     Bearer(TokenClienteForjado)}

HeadersPapeis == HeadersEmitidos \cup HeadersSemToken

NextPapeis ==
    \/ admin_login(Worker, {"root"}, {"s3nha"})
    \/ cliente_login(Worker, {CodigoAna})
    \/ handle_admins(Worker, HeadersPapeis, {AdminBody("eva", "outra")})
    \/ handle_admin_id(Worker, HeadersPapeis, {1, 2})
    \/ handle_cliente_id(Worker, HeadersPapeis, {Ana.id, Bia.id})
    \/ handle_orcamento_id(Worker, HeadersPapeis, {1}, {AguardandoPagamento})
    \/ aprovar_orcamento(Worker, HeadersPapeis, {1})
    \/ handle_pedido_id(Worker, HeadersPapeis, {1})
    \/ get_cliente_dashboard(Worker, HeadersPapeis)
    \/ get_cliente_orcamentos(Worker, HeadersPapeis)
    \/ post_novo_orcamento(Worker, HeadersPapeis, {UmItem})
    \/ handle_chat(Worker, HeadersPapeis, {TRUE}, {<<>>}, Conversa)

SpecPapeis == Init /\ [][NextPapeis]_vars

(***************************************************************************)
(* SpecExpiracao: both logins, the clock, and endpoints of both roles      *)
(* called with tokens of any age and with headers that carry none.         *)
(***************************************************************************)
NextExpiracao ==
    \/ admin_login(Worker, {"root"}, {"s3nha"})
    \/ cliente_login(Worker, {CodigoAna})
    \/ \E d \in {AdminTokenHours, ClienteTokenHours} : Tick(d)
    \/ handle_admins(Worker, HeadersPapeis, {AdminBody("eva", "outra")})
    \/ handle_admin_id(Worker, HeadersPapeis, {1, 2})
    \/ get_cliente_dashboard(Worker, HeadersPapeis)
    \/ get_cliente_orcamentos(Worker, HeadersPapeis)
    \/ handle_chat(Worker, HeadersPapeis, {TRUE}, {<<>>}, Conversa)

SpecExpiracao == Init /\ [][NextExpiracao]_vars

(***************************************************************************)
(* SpecCatalogo: an administrator adds a product and visitors read the     *)
(* catalogue.  The new product's columns are drawn from the texts below.   *)
(***************************************************************************)
Tags == <<"T", "a", "g", "s">>

CategoriasDeProduto == {NULL, <<>>, Lacres, <<"l", "a", "c", "r", "e", "s">>, Tags}

SlugsDeProduto ==
    {NULL, <<>>, <<"a">>, Prefixo \o <<"a">>, <<"b">>, <<"c">>, Prefixo \o <<"c">>}

\* {"a": 1, "b": "c"}
TextoDoisCampos ==
    <<"{", Aspas, "a", Aspas, ":", " ", "1", ",", " ", Aspas, "b", Aspas, ":", " ",
      Aspas, "c", Aspas, "}">>

\* {"a":{"b":10}}
TextoAninhado ==
    <<"{", Aspas, "a", Aspas, ":", "{", Aspas, "b", Aspas, ":", "1", "0", "}", "}">>

\* {"a":1,"a":2}
TextoChaveRepetida ==
    <<"{", Aspas, "a", Aspas, ":", "1", ",", Aspas, "a", Aspas, ":", "2", "}">>

\* {"a":"b",}
TextoVirgulaFinal == <<"{", Aspas, "a", Aspas, ":", Aspas, "b", Aspas, ",", "}">>

\* {"a":
TextoTruncado == <<"{", Aspas, "a", Aspas, ":">>

TextosJson ==
    {TextoDoisCampos, TextoAninhado, TextoChaveRepetida,
     <<"{", "}">>, <<Aspas, "a", Aspas>>, <<"7">>, <<"n", "u", "l", "l">>}

TextosNaoJson ==
    {TextoVirgulaFinal, TextoTruncado, <<"a", " ", "b">>, <<"0", "1">>,
     <<"{", "}", " ", "x">>, <<" ">>}

Especificacoes == TextosJson \cup TextosNaoJson \cup {NULL, <<>>}

BodiesProdutos ==
    {ProdutoBody("Rótulo", categoria, subcategoria, url_slug, NULL) :
        categoria \in CategoriasDeProduto, subcategoria \in {NULL, <<"x">>},
        url_slug \in SlugsDeProduto}
    \cup {ProdutoBody("Rótulo", Tags, NULL, <<"c">>, specs) : specs \in Especificacoes}

Filtros == {NULL, <<"l", "a", "c">>, <<"S">>, <<"z">>}

SlugsPedidos == {<<"a">>, <<"b">>, <<"c">>, <<"d">>}

NextCatalogo ==
    \/ handle_produtos(Worker, {Bearer(TokenRoot)}, BodiesProdutos)
    \/ get_api_produtos(Worker, Filtros)
    \/ produto_detalhe(Worker, SlugsPedidos)
    \/ index_route(Worker)
    \/ Raise(Worker)
    \/ Interrupt(Worker)

SpecCatalogo == Init /\ [][NextCatalogo]_vars

(***************************************************************************)
(* SpecConexoes: handlers that open a connection, public and gated, called *)
(* with and without a token, with bodies they accept and bodies they       *)
(* refuse, and failing at any statement.                                   *)
(***************************************************************************)
NextConexoes ==
    \/ admin_login(Worker, {"root"}, {"s3nha", "errada"})
    \/ cliente_login(Worker, {CodigoAna, CodigoErrado})
    \/ handle_admin_id(Worker, {Bearer(TokenRoot), NoHeader}, {1, 2})
    \/ handle_cliente_id(Worker, {Bearer(TokenRoot), NoHeader}, {Ana.id, Bia.id})
    \/ aprovar_orcamento(Worker, {Bearer(TokenRoot), NoHeader}, {1, 2})
    \/ get_cliente_dashboard(Worker, {Bearer(TokenAna), NoHeader})
    \/ get_cliente_orcamentos(Worker, {Bearer(TokenAna), NoHeader})
    \/ post_novo_orcamento(Worker, {Bearer(TokenAna), NoHeader}, {UmItem, PyNone})
    \/ post_orcamento_publico(Worker, {Body(UmItem, "Novo", "novo@x", "11999", NoCode),
                                       Body(UmItem, "Novo", "novo@x", "11999", CodigoBia),
                                       Body(PyNone, "Novo", "novo@x", "11999", NoCode)})
    \/ get_api_produtos(Worker, {NULL})
    \/ produto_detalhe(Worker, {<<"a">>, <<"d">>})
    \/ Raise(Worker)
    \/ Interrupt(Worker)

SpecConexoes == Init /\ [][NextConexoes]_vars

(***************************************************************************)
(* SpecCadastros: the admin panel creating products, clients and           *)
(* administrators, with bodies that repeat a stored slug, email, access    *)
(* code or username and bodies that do not.                                *)
(***************************************************************************)
NextCadastros ==
    \/ handle_produtos(Worker, {Bearer(TokenRoot), NoHeader},
                       {ProdutoBody("Rótulo", Tags, NULL, ProdutoLacre.url_slug, NULL),
                        ProdutoBody("Rótulo", Tags, NULL, <<"c">>, NULL)})
    \/ handle_clientes(Worker, {Bearer(TokenRoot), NoHeader},
                       {Body(PyNone, "Caio", "caio@x", "11966", CodigoCaio),
                        Body(PyNone, "Caio", Ana.email, "11966", CodigoCaio),
                        Body(PyNone, "Caio", "caio@x", "11966", CodigoAna)})
    \/ handle_admins(Worker, {Bearer(TokenRoot), NoHeader},
                     {AdminBody("eva", "outra"), AdminBody(Root.username, "outra")})
    \/ Raise(Worker)
    \/ Interrupt(Worker)

SpecCadastros == Init /\ [][NextCadastros]_vars

(***************************************************************************)
(* SpecChat: two customers with quotes and orders, and chat requests of    *)
(* both in which the model answers, fails, or asks for tools with          *)
(* arguments of every kind, in responses of one part or two.               *)
(***************************************************************************)
PedidoIds == {<<"1">>, <<"2">>, <<"9">>, <<"a">>, NULL}

DuasPartes ==
    {<<FunctionCall("check_status_pedido", <<"1">>), FunctionCall("get_product_list", NULL)>>,
     <<TextPart("Um momento"), FunctionCall("get_product_list", NULL)>>}

Respostas ==
    {<<TextPart("Olá")>>}
    \cup {<<FunctionCall("check_status_pedido", pedido_id)>> : pedido_id \in PedidoIds}
    \cup {<<FunctionCall(name, NULL)>> : name \in {"get_product_list", "outra"}}
    \cup DuasPartes

Historias == {<<>>, <<{"role", "content"}>>, <<{"role", "content"}, {"content"}>>}

NextChat ==
    \/ post_novo_orcamento(Worker, {Bearer(TokenAna), Bearer(TokenBia)}, {UmItem})
    \/ aprovar_orcamento(Worker, {Bearer(TokenRoot)}, {1, 2})
    \/ handle_chat(Worker, {Bearer(TokenAna), Bearer(TokenBia)}, BOOLEAN, Historias, Respostas)

SpecChat == Init /\ [][NextChat]_vars

(***************************************************************************)
(* SpecAdmins: the administrator accounts created, logged in and deleted,  *)
(* by callers of every kind.                                               *)
(***************************************************************************)
NextAdmins ==
    \/ handle_admins(Worker, HeadersPapeis, {AdminBody("eva", "outra")})
    \/ admin_login(Worker, {"root", "eva"}, {"s3nha", "outra"})
    \/ cliente_login(Worker, {CodigoAna})
    \/ handle_admin_id(Worker, HeadersPapeis, {1, 2})
    \/ Raise(Worker)
    \/ Interrupt(Worker)

SpecAdmins == Init /\ [][NextAdmins]_vars

(***************************************************************************)
(* Properties of the workflow.                                             *)
(***************************************************************************)
\* The request the worker is handling or has last answered.
Last == req[Worker]

Answered(handler, status) ==
    Last.handler = handler /\ Last.pc = "done" /\ Last.resp = status

\* Rows of table t the last request added to what it found.
Added(t) == db[t] \ Last.pre[t]

\* The quote the last request names, and its line items, as the request
\* found them.
QuoteBefore == {o \in Last.pre["orcamentos"] : o.id = Last.args.id}

QuoteItemsBefore == {i \in Last.pre["orcamento_itens"] : i.orcamento_id = Last.args.id}

\* f pairs every new order line item with a quote line item it copies, no
\* quote line item twice.
CopiesItems(f, pedido) ==
    /\ \A x, y \in DOMAIN f : f[x] = f[y] => x = y
    /\ \A x \in DOMAIN f :
          /\ x.pedido_id = pedido.id
          /\ x.produto_id = f[x].produto_id
          /\ x.quantidade_solicitada = f[x].quantidade_solicitada
          /\ x.preco_unitario_definido = f[x].preco_unitario_definido

\* C1: a successful approve (answer 200) of quote Q with n line items has
\* added exactly one order, owned by Q's client, and exactly n order line
\* items of that order, each a copy (product, quantity, admin-defined price)
\* of a distinct line item of Q; Q's status is 'Convertido em Pedido', and
\* the quote row and every quote line item are still there, otherwise
\* unchanged.
C1_ApproveConverts ==
    Answered("aprovar_orcamento", 200) =>
        /\ Cardinality(QuoteBefore) = 1
        /\ Cardinality(Added("pedidos")) = 1
        /\ db["pedidos"] = Last.pre["pedidos"] \cup Added("pedidos")
        /\ \A Q \in QuoteBefore, pedido \in Added("pedidos") :
              /\ pedido.cliente_id = Q.cliente_id
              /\ Cardinality(Added("pedido_itens")) = Cardinality(QuoteItemsBefore)
              /\ \E f \in [Added("pedido_itens") -> QuoteItemsBefore] : CopiesItems(f, pedido)
              /\ db["orcamentos"] =
                    (Last.pre["orcamentos"] \ {Q})
                       \cup {[Q EXCEPT !.status = ConvertidoEmPedido]}
        /\ db["orcamento_itens"] = Last.pre["orcamento_itens"]
        /\ db["pedido_itens"] = Last.pre["pedido_itens"] \cup Added("pedido_itens")

\* C1 witness: an approve answered 200 for a quote of two line items, one
\* of them priced by the administrator, while another quote exists.
C1_Witness ==
    /\ Answered("aprovar_orcamento", 200)
    /\ Cardinality(QuoteItemsBefore) = 2
    /\ \E i \in QuoteItemsBefore : i.preco_unitario_definido = 10
    /\ Cardinality(db["orcamentos"]) = 2
    /\ Cardinality(Added("pedido_itens")) = 2

\* The approve in the worker's slot did not commit: it is still running, or
\* it failed (any answer but 200), or its process was killed.
ApproveNotCommitted ==
    Last.handler = "aprovar_orcamento" /\ ~(Last.pc = "done" /\ Last.resp = 200)

\* C2: approve is all-or-nothing.  While an approve has not committed, and
\* after it failed or was interrupted at any statement, the tables hold no
\* order and no order line item of that request, and the quote's status is
\* what it was.
C2_ApproveAllOrNothing ==
    ApproveNotCommitted =>
        /\ db["pedidos"] = Last.pre["pedidos"]
        /\ db["pedido_itens"] = Last.pre["pedido_itens"]
        /\ db["orcamentos"] = Last.pre["orcamentos"]

\* C2 witness: an approve that raised, or was killed, after the INSERT of
\* the order and of the first of two order line items.
C2_Witness ==
    /\ Last.handler = "aprovar_orcamento"
    /\ Last.loc.raised \in {"Exception", "killed"}
    /\ Last.loc.novo_id # 0
    /\ Len(Last.loc.itens_orcamento) = 2
    /\ Last.loc.i = 2

\* C3 (the claim as stated): 'Convertido em Pedido' is terminal -- a quote
\* that has this status keeps it in every step of the administrator's
\* operations.
C3_ConvertidoTerminal ==
    [][\A o \in db["orcamentos"] :
          o.status = ConvertidoEmPedido =>
              \E o2 \in db'["orcamentos"] : o2.id = o.id /\ o2.status = ConvertidoEmPedido]_vars

(***************************************************************************)
(* Properties of quote creation.                                           *)
(***************************************************************************)
Criadores == {"post_novo_orcamento", "post_orcamento_publico"}

\* 'itens' is missing, is not a list, or is the empty list.
ItensAusentes ==
    \/ Last.args.itens.t = "none"
    \/ Last.args.itens.t # "list"
    \/ Last.args.itens.t = "list" /\ Last.args.itens.v = <<>>

\* The request got past the customer middleware (the public entry point has
\* none).
Autenticado ==
    Last.handler = "post_novo_orcamento" =>
        cliente_token_required(Last.args.header, now).status = 0

\* C5: a quote creation through either entry point whose 'itens' is
\* missing, not a list or empty is answered 400 before any statement runs,
\* and no quote, no quote line item and no client is created.
C5_ItensObrigatorios ==
    (Last.handler \in Criadores /\ ItensAusentes /\ Autenticado) =>
        /\ Last.pc = "done"
        /\ Last.resp = 400
        /\ db = Last.pre

\* C5 witness: a public submission whose 'itens' is not a list, with
\* everything else in order, has been answered.
C5_Witness ==
    /\ Answered("post_orcamento_publico", 400)
    /\ Last.args.itens.t = "str"
    /\ Last.args.nome = "Novo" /\ Last.args.email = "novo@x" /\ Last.args.whatsapp = "11999"

\* The body gave an access code that no client had when the request arrived.
CodigoSemCliente ==
    /\ Last.handler = "post_orcamento_publico"
    /\ Last.args.codigo_acesso # NoCode
    /\ \A c \in Last.pre["clientes"] : c.codigo_acesso # Last.args.codigo_acesso

\* C6: a public submission with an access code that matches no client never
\* reaches the email lookup or the INSERT of a client, creates nothing, and
\* is answered with an error (401, or 400 for a body that fails validation,
\* or 500 if the database fails), whatever email it gives.
C6_CodigoInvalidoFalha ==
    CodigoSemCliente =>
        /\ Last.pc \in {"select_codigo", "done", "killed"}
        /\ db = Last.pre
        /\ Last.pc = "done" =>
              /\ Last.resp \in {400, 401, 500}
              /\ (ValidaPublico(Last.args) = 0 /\ Last.loc.raised = "") => Last.resp = 401

\* C6 witness: such a submission, valid otherwise and with the email of an
\* existing client, answered 401.
C6_Witness ==
    /\ CodigoSemCliente
    /\ Answered("post_orcamento_publico", 401)
    /\ Last.args.email = "ana@x"

\* A public submission with no access code, with name, email and whatsapp,
\* and with a list of at least one item.
SemCodigoCompleto ==
    /\ Last.handler = "post_orcamento_publico"
    /\ Last.args.codigo_acesso = NoCode
    /\ Last.args.nome \notin {None, ""}
    /\ Last.args.email \notin {None, ""}
    /\ Last.args.whatsapp \notin {None, ""}
    /\ Last.args.itens.t = "list" /\ Len(Last.args.itens.v) >= 1

EmailNovo == \A c \in Last.pre["clientes"] : c.email # Last.args.email

UppercaseLetters ==
    {"A", "B", "C", "D", "E", "F", "G", "H", "I", "J", "K", "L", "M",
     "N", "O", "P", "Q", "R", "S", "T", "U", "V", "W", "X", "Y", "Z"}

Digits == {"0", "1", "2", "3", "4", "5", "6", "7", "8", "9"}

\* The quote line items the last request added are one per submitted item,
\* all of quote o.
UmItemPorSubmetido(o) ==
    LET itens == Last.args.itens.v
    IN /\ Cardinality(Added("orcamento_itens")) = Len(itens)
       /\ \E f \in [1..Len(itens) -> Added("orcamento_itens")] :
             /\ \A j, k \in 1..Len(itens) : f[j] = f[k] => j = k
             /\ \A k \in 1..Len(itens) :
                   /\ f[k].orcamento_id = o.id
                   /\ f[k].produto_id = itens[k].produto_id
                   /\ f[k].quantidade_solicitada = itens[k].quantidade

C8_EmailRegistrado ==
    (SemCodigoCompleto /\ ~EmailNovo /\ Last.pc = "done"
        /\ Last.loc.raised \notin {"Exception", "killed"}) =>
        /\ Last.resp = 201
        /\ db["clientes"] = Last.pre["clientes"]
        /\ Cardinality(Added("orcamentos")) = 1
        /\ db["orcamentos"] = Last.pre["orcamentos"] \cup Added("orcamentos")
        /\ \A o \in Added("orcamentos") :
              /\ \E c \in Last.pre["clientes"] :
                    c.email = Last.args.email /\ o.cliente_id = c.id
              /\ UmItemPorSubmetido(o)

\* C8 witness: the second of two such submissions with Ana's email has been
\* answered 201: two quotes of Ana from public submissions, and the clients
\* are the two the installation had.
C8_Witness ==
    /\ SemCodigoCompleto
    /\ Last.args.email = Ana.email
    /\ Answered("post_orcamento_publico", 201)
    /\ Cardinality({o \in db["orcamentos"] :
                       o.cliente_id = Ana.id /\ o.handler = "post_orcamento_publico"}) = 2
    /\ Cardinality({o \in Last.pre["orcamentos"] :
                       o.cliente_id = Ana.id /\ o.handler = "post_orcamento_publico"}) = 1
    /\ db["clientes"] = InitTables["clientes"]

(***************************************************************************)
(* Properties of the orders' origin.                                       *)
(***************************************************************************)
TabelasDePedido == {"pedidos", "pedido_itens"}

\* C4: every order row and every order line item, committed or pending in
\* a transaction, was inserted by the approve-quote handler: no other
\* handler issues an INSERT into the two order tables.
C4_PedidosSoPorAprovacao ==
    /\ \A t \in TabelasDePedido : \A row \in db[t] : row.handler = "aprovar_orcamento"
    /\ \A r \in Reqs : \A t \in TabelasDePedido :
          req[r].tx.ins[t] # {} => req[r].handler = "aprovar_orcamento"

\* C4 witness: an order with a line item exists and has been updated to
\* 'Enviado', next to quotes created by both creation handlers and rows the
\* administrator added to the clients, products and administrators.
C4_Witness ==
    /\ \E p \in db["pedidos"] : p.status = Enviado
    /\ db["pedido_itens"] # {}
    /\ \E o \in db["orcamentos"] : o.handler = "post_novo_orcamento"
    /\ \E o \in db["orcamentos"] : o.handler = "post_orcamento_publico"
    /\ db["clientes"] # InitTables["clientes"]
    /\ db["produtos"] # InitTables["produtos"]
    /\ db["admin"] # InitTables["admin"]

(***************************************************************************)
(* Properties of the logins.                                               *)
(***************************************************************************)
\* An admin row with the submitted username exists and the body carries a
\* password that equals the row's stored secret.
SenhaConfere ==
    /\ Last.args.password # None
    /\ \E a \in Last.pre["admin"] :
          a.username = Last.args.username /\ a.chave_admin = Last.args.password

\* C9: an admin login that the database does not fail answers 200 with a
\* token if an admin row with the submitted username exists and the
\* submitted password equals its stored secret, and otherwise -- unknown
\* username, different password, missing password -- answers 401 and issues
\* no token.
C9_AdminLogin ==
    (Last.handler = "admin_login" /\ Last.pc = "done" /\ Last.loc.raised = "") =>
        IF SenhaConfere
        THEN /\ Last.resp = 200
             /\ \E t \in tokens : t.token = Last.loc.token /\ t.handler = "admin_login"
        ELSE /\ Last.resp = 401
             /\ Last.loc.token = EmptyToken

GatedCliente ==
    {"get_cliente_dashboard", "get_cliente_orcamentos", "post_novo_orcamento",
     "handle_chat"}

\* The last request carried token t, issued by a customer login less than
\* 72 hours before the request arrived.
UsaTokenDeCliente(t) ==
    /\ Last.handler \in GatedCliente
    /\ t.handler = "cliente_login"
    /\ Last.args.header = Bearer(t.token)
    /\ Last.at < t.at + 72

\* C10: a request to a customer-gated endpoint (dashboard, orcamentos,
\* orcamentos/novo, chat) that carries a token issued by a customer login
\* and not yet expired is not answered 401: the middleware lets it through
\* and the handler runs with the id of the client whose access code was
\* used in that login; a quote it creates is that client's.
C10_TokenDeClientePassa ==
    \A t \in tokens :
        UsaTokenDeCliente(t) =>
            /\ Last.resp # 401
            /\ \E c \in InitTables["clientes"] :
                  /\ c.codigo_acesso = t.credential
                  /\ Last.loc.cliente_id = c.id
                  /\ \A o \in Added("orcamentos") : o.cliente_id = c.id

\* C10 witness: Bia logged in at hour 24 and her token, 48 hours old, has
\* created a quote at hour 72.
C10_Witness ==
    /\ Answered("post_novo_orcamento", 201)
    /\ Last.at = 72
    /\ \E t \in tokens :
          /\ UsaTokenDeCliente(t)
          /\ t.credential = CodigoBia
          /\ t.at = 24
    /\ \E o \in Added("orcamentos") : o.cliente_id = Bia.id

(***************************************************************************)
(* Properties of the two middlewares.                                      *)
(***************************************************************************)
GatedAdmin ==
    {"handle_admins", "handle_admin_id", "handle_clientes", "handle_cliente_id",
     "handle_produtos", "handle_orcamento_id", "aprovar_orcamento", "handle_pedido_id"}

\* Token t was issued by the login named and is not expired when the last
\* request arrives: admin tokens live 24 hours, customer tokens 72.
TokenVigente(t, login) ==
    /\ t.handler = login
    /\ Last.args.header = Bearer(t.token)
    /\ Last.at < t.at + (IF login = "admin_login" THEN 24 ELSE 72)

\* The last request was answered 401 by the middleware: its handler did not
\* run (no connection, no statement, no local set) and the tables are as
\* the request found them.
RecusadoPeloMiddleware ==
    /\ Last.pc = "done"
    /\ Last.resp = 401
    /\ ~Last.conn
    /\ Last.loc = NoLoc
    /\ Last.tx = EmptyTx
    /\ db = Last.pre

\* C11: an unexpired token that a customer login issued, presented to an
\* admin-gated endpoint, and an unexpired token that an admin login issued,
\* presented to a customer-gated endpoint, are answered 401; the handler
\* does not run and no data changes.
C11_PapeisSeparados ==
    \A t \in tokens :
        (\/ TokenVigente(t, "cliente_login") /\ Last.handler \in GatedAdmin
         \/ TokenVigente(t, "admin_login") /\ Last.handler \in GatedCliente)
        => RecusadoPeloMiddleware

\* C11 witness: Ana's token was presented to the approve of an existing
\* quote and answered 401.
C11_Witness ==
    /\ Answered("aprovar_orcamento", 401)
    /\ \E t \in tokens : TokenVigente(t, "cliente_login")
    /\ \E o \in db["orcamentos"] : o.id = Last.args.id /\ o.status # ConvertidoEmPedido

\* The Authorization header of the last request is absent, has no second
\* space-separated part, carries an empty token, a token signed with
\* another key, or a token issued by a login and expired since.
SemTokenValido ==
    \/ ~Last.args.header.present
    \/ Last.args.header.rest = <<>>
    \/ /\ Last.args.header.rest # <<>>
       /\ \/ Last.args.header.rest[1] = EmptyToken
          \/ Last.args.header.rest[1].sig.with # SECRET_KEY
          \/ \E t \in tokens :
                /\ Last.args.header = Bearer(t.token)
                /\ Last.at >= t.at + (IF t.handler = "admin_login" THEN 24 ELSE 72)

\* C12: a request to an admin-gated or customer-gated endpoint whose
\* Authorization header is absent, malformed, badly signed or expired is
\* answered 401 without running the handler.
C12_SemToken401 ==
    (Last.handler \in GatedAdmin \cup GatedCliente /\ SemTokenValido)
        => RecusadoPeloMiddleware

(***************************************************************************)
(* Properties of the deletion of administrators and clients.               *)
(***************************************************************************)
ApagaRoot == Last.handler = "handle_admin_id" /\ Last.args.id = 1

\* The statement of C13 as given: a delete request for admin id 1 is
\* answered 403 whoever the caller is, and the row stays.
C13_Sempre403 ==
    /\ (ApagaRoot /\ Last.pc = "done") => Last.resp = 403
    /\ \E a \in db["admin"] : a.id = 1

\* C13, amended: a delete request for admin id 1 never succeeds: from a
\* caller with an unexpired admin token, whichever administrator it is, it
\* is answered 403, from any other caller 401 or 500 by the middleware; no
\* statement runs, and in every state the admin row with id 1 is in the
\* table and in what every transaction in progress sees.
C13_RootProtegido ==
    /\ ApagaRoot =>
          /\ Last.pc = "done"
          /\ Last.resp \in {401, 403, 500}
          /\ (\E t \in tokens : TokenVigente(t, "admin_login")) <=> Last.resp = 403
          /\ ~Last.conn /\ Last.tx = EmptyTx
          /\ db = Last.pre
    /\ \E a \in db["admin"] : a.id = 1 /\ a.username = Root.username
    /\ \A r \in Reqs : \E a \in View(r)["admin"] : a.id = 1

\* C13 witness: the administrator eva, created in the run, asked for the
\* deletion of admin 1 and was answered 403.
C13_Witness ==
    /\ ApagaRoot
    /\ Answered("handle_admin_id", 403)
    /\ \E t \in tokens : TokenVigente(t, "admin_login") /\ t.credential = "eva"

ApagaCliente ==
    /\ Last.handler = "handle_cliente_id"
    /\ Last.pc = "done"
    /\ \E t \in tokens : TokenVigente(t, "admin_login")

\* C14: a delete of a client that no quote and no order references is
\* answered 200 and removes that client's row and nothing else; a delete of
\* a client that a quote or an order references is answered 409 and leaves
\* the client, the quotes and the orders as they were.
C14_ApagaClienteOuConflito ==
    ApagaCliente =>
       IF ClienteReferenciado(Last.pre, Last.args.id)
       THEN Last.resp = 409 /\ db = Last.pre
       ELSE /\ Last.resp = 200
            /\ db["clientes"] = {c \in Last.pre["clientes"] : c.id # Last.args.id}
            /\ \A t \in TableNames \ {"clientes"} : db[t] = Last.pre[t]

\* C14 witness: Bia, who has no quote, was deleted earlier in the run, and
\* the delete of Ana, who has one, has just been answered 409.
C14_Witness ==
    /\ ApagaCliente
    /\ Last.args.id = Ana.id
    /\ Last.resp = 409
    /\ Ana \in db["clientes"]
    /\ \E o \in db["orcamentos"] : o.cliente_id = Ana.id
    /\ ~\E c \in db["clientes"] : c.id = Bia.id

(***************************************************************************)
(* Properties of the public catalogue.                                     *)
(***************************************************************************)
\* The lookup of the last request has run: the page is being rendered or
\* the request was answered by the handler's own return.
DetalheDecidido ==
    /\ Last.handler = "produto_detalhe"
    /\ Last.pc = "render" \/ (Last.pc = "done" /\ Last.resp \in {200, 404})

\* The products that store the requested slug with and without the prefix.
ComPrefixo == {p \in Last.pre["produtos"] : p.url_slug = Prefixo \o Last.args.slug}

SemPrefixo == {p \in Last.pre["produtos"] : p.url_slug = Last.args.slug}

\* The statement of C15 as given: every product that stores the slug S or
\* '/produtos/S' is the product GET /produtos/S finds, and 404 is answered
\* only when no product stores either form.
C15_TodoProdutoEncontrado ==
    DetalheDecidido =>
       /\ \A p \in ComPrefixo \cup SemPrefixo : Last.loc.produto = <<p>>
       /\ Last.resp = 404 => ComPrefixo \cup SemPrefixo = {}

\* C15, amended: GET /produtos/S finds the product that stores
\* '/produtos/S' if there is one, and otherwise the product that stores S;
\* it answers 404 exactly when no product stores either form.
C15_PrefixadoPrimeiro ==
    DetalheDecidido =>
       /\ \A p \in ComPrefixo : Last.loc.produto = <<p>>
       /\ ComPrefixo = {} => \A p \in SemPrefixo : Last.loc.produto = <<p>>
       /\ Last.loc.produto # <<>> => Last.loc.produto[1] \in ComPrefixo \cup SemPrefixo
       /\ (Last.pc = "done" /\ Last.resp = 404) <=> ComPrefixo \cup SemPrefixo = {}

\* C15 witness: a request for the slug b was answered with the page of the
\* product that stores '/produtos/b', after a product storing b was added.
C15_Witness ==
    /\ DetalheDecidido
    /\ Last.resp = 200
    /\ Last.args.slug = <<"b">>
    /\ Last.loc.produto = <<ProdutoAdesivo>>
    /\ SemPrefixo # {}

\* What a JSON decoder gives for each of the texts that are valid JSON,
\* written out value by value.
JsonDecodificado(text) ==
    CASE text = ProdutoLacre.especificacoes_tecnicas ->
            JDict(<< <<(<<"a">>), JStr(<<"b">>)>> >>)
      [] text = TextoDoisCampos ->
            JDict(<< <<(<<"a">>), JInt(1)>>, <<(<<"b">>), JStr(<<"c">>)>> >>)
      [] text = TextoAninhado ->
            JDict(<< <<(<<"a">>), JDict(<< <<(<<"b">>), JInt(10)>> >>)>> >>)
      [] text = TextoChaveRepetida -> JDict(<< <<(<<"a">>), JInt(2)>> >>)
      [] text = <<"{", "}">> -> JDict(<<>>)
      [] text = <<Aspas, "a", Aspas>> -> JStr(<<"a">>)
      [] text = <<"7">> -> JInt(7)
      [] text = <<"n", "u", "l", "l">> -> JNone

JsonValido(text) == text \in TextosJson \cup {ProdutoLacre.especificacoes_tecnicas}

\* {"Descrição": text}
SoDescricao(text) == JDict(<< <<Descricao, JStr(text)>> >>)

\* The specification text of the product the last request fetched.
TextoDoProduto == Last.loc.produto[1].especificacoes_tecnicas

ProdutoBuscado == DetalheDecidido /\ Last.loc.produto # <<>>

\* The page of a fetched product is rendered unless the request is cut
\* short from outside the handler.
PaginaEntregue ==
    (Last.handler = "produto_detalhe" /\ Last.pc = "done" /\ Last.loc.produto # <<>>)
       => \/ Last.resp = 200 /\ Last.loc.rendered
          \/ Last.resp = 500 /\ Last.loc.raised = "Exception" /\ ~Last.loc.rendered

\* The statement of C16 as given: the page gets the decoded value when the
\* specs text is valid JSON and {"Descrição": text} for every other text,
\* and it is rendered.
C16_JsonOuDescricao ==
    /\ (ProdutoBuscado /\ TextoDoProduto # NULL) =>
          Last.loc.specs = IF JsonValido(TextoDoProduto)
                           THEN JsonDecodificado(TextoDoProduto)
                           ELSE SoDescricao(TextoDoProduto)
    /\ PaginaEntregue

\* C16, amended: the page gets the decoded value when the specs text is
\* valid JSON, {"Descrição": text} for every other text that is not empty,
\* and the empty map for an empty or absent text; and it is rendered.
C16_JsonOuDescricaoNaoVazia ==
    /\ ProdutoBuscado =>
          Last.loc.specs = IF TextoDoProduto \in {NULL, <<>>} THEN JDict(<<>>)
                           ELSE IF JsonValido(TextoDoProduto)
                           THEN JsonDecodificado(TextoDoProduto)
                           ELSE SoDescricao(TextoDoProduto)
    /\ PaginaEntregue

\* C16 witness: the page of a product whose text is an object with a
\* trailing comma was rendered with the text under 'Descrição'.
C16_Witness ==
    /\ ProdutoBuscado
    /\ Last.resp = 200
    /\ TextoDoProduto = TextoVirgulaFinal
    /\ Last.loc.specs = SoDescricao(TextoVirgulaFinal)

\* The lower-case form of the letters the category texts use.
Minuscula(ch) ==
    CASE ch = "L" -> "l" [] ch = "A" -> "a" [] ch = "B" -> "b" [] ch = "I" -> "i"
      [] ch = "T" -> "t" [] ch = "S" -> "s" [] OTHER -> ch

Minusculas(text) == [k \in 1..Len(text) |-> Minuscula(text[k])]

\* part occurs in text, letter case aside.
ContemSemCaixa(text, part) ==
    \E k \in 0..(Len(text) - Len(part)) :
       SubSeq(Minusculas(text), k + 1, k + Len(part)) = Minusculas(part)

\* C17: GET /api/produtos?categoria=C returns exactly the products whose
\* category contains C, letter case aside, and GET /api/produtos without the
\* filter returns every product.
C17_FiltroPorCategoria ==
    Answered("get_api_produtos", 200) =>
       Last.loc.body =
          {p \in ProdutosListados(Last.pre) :
              \/ Last.args.categoria = NULL
              \/ p.categoria # NULL /\ ContemSemCaixa(p.categoria, Last.args.categoria)}

(***************************************************************************)
(* Properties of the navigation menu.                                      *)
(***************************************************************************)
\* The last request rendered a page whose menu query did not fail.
MenuConstruido ==
    /\ Last.pc = "done" /\ Last.loc.rendered
    /\ ~Last.loc.falha_menu

Menu == Last.loc.menu_categorias

\* The products the menu is about: those with a category and a slug.
Categorizados ==
    {p \in Last.pre["produtos"] :
        p.categoria \notin {NULL, <<>>} /\ p.url_slug \notin {NULL, <<>>}}

\* C18: the menu starts with Lacres, Adesivos, Brindes, Impressos in that
\* order, and every other category found in the data comes after them; each
\* category lists its products.
C18_CategoriasAcrescentadas ==
    MenuConstruido =>
       /\ Len(Menu) >= 4
       /\ <<Menu[1].categoria, Menu[2].categoria, Menu[3].categoria, Menu[4].categoria>>
             = <<Lacres, Adesivos, Brindes, Impressos>>
       /\ \A p \in Categorizados :
             \E k \in 1..Len(Menu) :
                /\ Menu[k].categoria = p.categoria
                /\ \E e \in Menu[k].produtos : e.nome = p.nome_produto
                /\ p.categoria \notin {Lacres, Adesivos, Brindes, Impressos} => k > 4

\* C19: when the menu's connection or query fails while a page is rendered,
\* the page gets an empty navigation structure and is rendered all the
\* same, with status 200 and the tables untouched.
C19_MenuVazioNaFalha ==
    (Last.handler \in {"index_route", "produto_detalhe"} /\ Last.loc.falha_menu) =>
       /\ Last.pc = "done"
       /\ Last.resp = 200
       /\ Last.loc.rendered
       /\ Last.loc.menu_categorias = <<>>
       /\ db = Last.pre

\* C19 witness: a product page was rendered with the product found and
\* with an empty menu, the menu query having failed while the table held
\* products that the menu would list.
C19_Witness ==
    /\ Answered("produto_detalhe", 200)
    /\ Last.loc.falha_menu
    /\ Last.loc.produto # <<>>
    /\ Last.loc.menu_categorias = <<>>
    /\ Categorizados # {}

(***************************************************************************)
(* Properties of the database connections.                                 *)
(***************************************************************************)
\* C20: a handler's connection is open only while the handler runs: once
\* the request is answered, by a return or through an except clause, the
\* connection is closed.
C20_ConexaoLiberada ==
    \A r \in Reqs : req[r].conn => InFlight(r)

\* C20 witness: an approval that had read the quote and its items failed
\* at a later statement, was answered 500, and its connection is closed.
C20_Witness ==
    /\ Answered("aprovar_orcamento", 500)
    /\ Last.loc.raised = "Exception"
    /\ Last.loc.orcamento # <<>>
    /\ ~Last.conn

(***************************************************************************)
(* Properties of the uniqueness constraints.                               *)
(***************************************************************************)
\* The body of the last create repeats a value that a unique column of a
\* stored row holds.
RepeteValorUnico ==
    \/ /\ Last.handler = "handle_produtos"
       /\ Last.args.url_slug # NULL
       /\ \E p \in Last.pre["produtos"] : p.url_slug = Last.args.url_slug
    \/ /\ Last.handler = "handle_clientes"
       /\ \E c \in Last.pre["clientes"] :
             c.email = Last.args.email \/ c.codigo_acesso = Last.args.codigo_acesso
    \/ /\ Last.handler = "handle_admins"
       /\ \E a \in Last.pre["admin"] : a.username = Last.args.username

\* The last request passed the admin middleware and no failure from outside
\* the uniqueness constraints cut it short.
CadastroDecidido ==
    /\ Last.pc = "done"
    /\ Last.resp # 401
    /\ Last.loc.raised # "Exception"

\* C21: a create that violates a uniqueness constraint (product slug,
\* client email or access code, admin username) is answered 409 and leaves
\* the stored rows as they were.
C21_ConflitoUnico ==
    (RepeteValorUnico /\ CadastroDecidido) =>
       /\ Last.resp = 409
       /\ db = Last.pre

(***************************************************************************)
(* Properties of the chat bridge.                                          *)
(***************************************************************************)
\* The customer the token of the last request was issued to.
ClienteDoChat == IF Last.args.header = Bearer(TokenAna) THEN Ana.id ELSE Bia.id

\* The document a tool answer describes is a stored quote or order of
\* customer c.
DocumentoDe(doc, c) ==
    \/ /\ doc.tipo = "Orçamento"
       /\ \E o \in db["orcamentos"] :
             o.id = doc.id /\ o.status = doc.status /\ o.cliente_id = c
    \/ /\ doc.tipo = "Pedido"
       /\ \E p \in db["pedidos"] :
             p.id = doc.id /\ p.status = doc.status /\ p.cliente_id = c

\* Customer c has a quote or an order with id n.
TemDocumento(c, n) ==
    \/ \E o \in db["orcamentos"] : o.id = n /\ o.cliente_id = c
    \/ \E p \in db["pedidos"] : p.id = n /\ p.cliente_id = c

\* The number a pedido_id argument writes, for the arguments drawn.
NumeroPedido(pedido_id) ==
    CASE pedido_id = <<"1">> -> 1 [] pedido_id = <<"2">> -> 2 [] pedido_id = <<"9">> -> 9
      [] OTHER -> 0

NaoEncontrado(n) ==
    ToolResult("Nenhum orçamento ou pedido com o ID foi encontrado para este cliente.", n, {})

ErroInterno == ToolResult("Erro interno ao consultar o banco de dados.", 0, {})

\* The answers of check_status_pedido in the last chat request, for ids
\* that are numbers.
RespostasDeStatus ==
    {k \in 1..Len(Last.loc.function_responses) :
        /\ Last.loc.function_responses[k].name = "check_status_pedido"
        /\ NumeroPedido(Last.loc.function_responses[k].call.pedido_id) # 0}

\* C22: check_status_pedido in a chat of customer C returns data only of a
\* quote or order of C; for an id that C does not own, whether another
\* customer owns it or nobody does, its answer is the same not-found error
\* (or the error of a failed query) with no data.
C22_SoDoCliente ==
    Last.handler = "handle_chat" =>
       \A k \in RespostasDeStatus :
          LET fr == Last.loc.function_responses[k]
              n == NumeroPedido(fr.call.pedido_id)
          IN /\ \A doc \in fr.response.data : doc.id = n /\ DocumentoDe(doc, ClienteDoChat)
             /\ ~TemDocumento(ClienteDoChat, n) => fr.response \in {NaoEncontrado(n), ErroInterno}
             /\ (TemDocumento(ClienteDoChat, n) /\ fr.response # ErroInterno)
                   => fr.response.erro = "" /\ fr.response.data # {}

\* C22 witness: in a chat of Ana the model asked for document 2, which is a
\* quote of Bia, and the tool answered not found.
C22_Witness ==
    /\ Last.handler = "handle_chat"
    /\ ClienteDoChat = Ana.id
    /\ \E o \in db["orcamentos"] : o.id = 2 /\ o.cliente_id = Bia.id
    /\ ~TemDocumento(Ana.id, 2)
    /\ \E k \in RespostasDeStatus :
          /\ Last.loc.function_responses[k].call.pedido_id = <<"2">>
          /\ Last.loc.function_responses[k].response = NaoEncontrado(2)

\* The failures of a chat request: an entry of the history without role or
\* content, the model call failing, a tool failing inside, and a
\* check_status_pedido call whose pedido_id is missing or is no number.
HistoriaMalformada ==
    \E k \in 1..Len(Last.args.history) :
       "role" \notin Last.args.history[k] \/ "content" \notin Last.args.history[k]

ModeloFalhou == Last.loc.raised = "Exception"

FerramentaFalhou ==
    \E k \in 1..Len(Last.loc.function_responses) :
       Last.loc.function_responses[k].response.erro
          \in {"Erro interno ao consultar o banco de dados.",
               "Erro interno ao consultar o catálogo de produtos."}

PedidoIdAusente == Last.loc.raised = "TypeError"

PedidoIdNaoNumerico ==
    \E k \in 1..Len(Last.loc.function_responses) :
       /\ Last.loc.function_responses[k].name = "check_status_pedido"
       /\ Last.loc.function_responses[k].call.pedido_id = <<"a">>

FalhaNoChat ==
    \/ HistoriaMalformada
    \/ ModeloFalhou
    \/ FerramentaFalhou
    \/ PedidoIdAusente
    \/ PedidoIdNaoNumerico

\* C23: a chat request in which the model call fails, a tool fails inside,
\* the tool arguments are malformed or the history is malformed ends with
\* the handler's generic apology; no exception reaches the caller.
C23_SempreDesculpa ==
    (Answered("handle_chat", Last.resp) /\ Last.args.gemini_model /\ FalhaNoChat) =>
       /\ Last.loc.raised # "uncaught KeyError"
       /\ Last.resp = 500
       /\ Last.loc.texto = Desculpe

\* The function response at position k answers the call at position k:
\* same name, and the error 'Ferramenta não reconhecida' exactly for a name
\* that is no tool.
RespondeChamada(k) ==
    /\ Last.loc.function_responses[k].name = Last.loc.function_calls[k].name
    /\ Last.loc.function_responses[k].response.erro = "Ferramenta não reconhecida."
          <=> Last.loc.function_calls[k].name \notin {"check_status_pedido", "get_product_list"}

\* C24: when the bridge reads the next response of the model, and when it
\* returns the final text, every tool call the model has requested has been
\* answered with exactly one function response, the matching tool's result
\* or the error for an unknown name; and the final text is returned only
\* when the latest response contains no tool call, and is that response's
\* text.
C24_UmaRespostaPorChamada ==
    Last.handler = "handle_chat" =>
       /\ (Last.pc = "send_message" \/ Answered("handle_chat", 200)) =>
             /\ Len(Last.loc.function_responses) = Len(Last.loc.function_calls)
             /\ \A k \in 1..Len(Last.loc.function_responses) : RespondeChamada(k)
       /\ Answered("handle_chat", 200) =>
             /\ FunctionCalls(Last.loc.response) = <<>>
             /\ \E k \in 1..Len(Last.loc.response) : Last.loc.texto = Last.loc.response[k].text

(***************************************************************************)
(* Properties of the handlers that write several rows.                     *)
(***************************************************************************)
VariasEscritas == {"post_novo_orcamento", "post_orcamento_publico", "handle_orcamento_id"}

\* The last request raised after at least one of its writes: the INSERT of
\* the client or of the quote in a creation, the UPDATE of the quote in the
\* administrator's update.
ExcecaoAposEscrita ==
    /\ Last.handler \in VariasEscritas
    /\ Last.pc = "done"
    /\ Last.loc.raised = "Exception"
    /\ \/ Last.loc.novo_id # 0
       \/ Last.loc.is_new_client /\ Last.loc.cliente_id # 0
       \/ Last.handler = "handle_orcamento_id" /\ Last.loc.i >= 1

\* C25: an authenticated quote creation, a public submission or an
\* administrator's quote update that raises after some of its writes
\* answers 500 and leaves every table as it was when the request arrived:
\* no client without its quote, no quote with part of its items, no part of
\* a price update.
C25_ExcecaoDesfazEscritas ==
    ExcecaoAposEscrita => Last.resp = 500 /\ db = Last.pre

\* C25 witness: a public submission of two items that raised after the
\* INSERT of its new client, of the quote and of the first item.
C25_Witness ==
    /\ ExcecaoAposEscrita
    /\ Last.handler = "post_orcamento_publico"
    /\ Last.loc.is_new_client
    /\ Last.loc.novo_id # 0
    /\ Len(Last.args.itens.v) = 2
    /\ Last.loc.i = 2

(***************************************************************************)
(* Properties of concurrent requests.                                      *)
(***************************************************************************)
\* The orders created from a quote.
PedidosDoOrcamento(id) == {p \in db["pedidos"] : p.orcamento_id = id}

\* C26: whatever approve requests run for a quote, one after another or at
\* the same time, the tables never hold more than one order created from
\* that quote.
C26_NoMaximoUmPedido ==
    \A o \in db["orcamentos"] : Cardinality(PedidosDoOrcamento(o.id)) <= 1

\* Request slot r holds a public submission with no access code that has
\* ended, by its own return or on the email constraint.
SubmissaoSemCodigo(r) ==
    /\ req[r].handler = "post_orcamento_publico"
    /\ req[r].args.codigo_acesso = NoCode
    /\ req[r].pc = "done"
    /\ req[r].loc.raised \in {"", "oceano_clientes_email_key"}

\* The quote of slot r is in the tables, with its line item, and belongs to
\* the client that has the submitted email.
OrcamentoDoEmail(r) ==
    \E c \in ClientePorEmail(db, req[r].args.email), o \in db["orcamentos"] :
        /\ o.id = req[r].loc.novo_id
        /\ o.cliente_id = c.id
        /\ \E i \in db["orcamento_itens"] : i.orcamento_id = o.id

\* Slot r lost on the email constraint: it holds no client, no quote and no
\* pending write.
PerdeuNoEmail(r) ==
    /\ req[r].resp = 409
    /\ req[r].loc.raised = "oceano_clientes_email_key"
    /\ req[r].loc.cliente_id = 0
    /\ req[r].loc.novo_id = 0
    /\ req[r].tx = EmptyTx

\* C27: with public submissions of the same new email and no access code
\* running at the same time, no two client rows ever have the same email;
\* a submission that has ended either is answered 201 with its quote
\* attached to the one client of that email, or has lost on the email
\* constraint and is answered 409; and the step that answers 409 changes no
\* table: it leaves no client, no quote and no line item.
C27_UmClientePorEmail ==
    /\ [](\A c1, c2 \in db["clientes"] : c1.email = c2.email => c1 = c2)
    /\ [](\A r \in Reqs : SubmissaoSemCodigo(r) =>
             \/ req[r].resp = 201 /\ req[r].loc.raised = "" /\ OrcamentoDoEmail(r)
             \/ PerdeuNoEmail(r))
    /\ [][\A r \in Reqs : (req'[r].resp = 409 /\ req[r].resp # 409) => db' = db]_vars

\* C27 witness: two submissions of an email no client had when either
\* arrived; one created the client and is answered 201, the other lost on
\* the email constraint and is answered 409.
C27_Witness ==
    \E r, s \in Reqs :
        /\ SubmissaoSemCodigo(r) /\ SubmissaoSemCodigo(s)
        /\ req[r].args.email = req[s].args.email
        /\ ClientePorEmail(req[r].pre, req[r].args.email) = {}
        /\ ClientePorEmail(req[s].pre, req[s].args.email) = {}
        /\ req[s].resp = 201 /\ req[s].loc.is_new_client
        /\ PerdeuNoEmail(r)
        /\ Cardinality(ClientePorEmail(db, req[r].args.email)) = 1
====
